---- MODULE Spec2Model ----
(***************************************************************************)
(* Model of the symbolic-expression engine of smats                        *)
(* (src/smats/symbolic/expression*.cpp) for the scalar type T = int.       *)
(*                                                                         *)
(* A cell is a record tagged by its kind.  Children are held by value.     *)
(* std::map<Expression, X> is a sequence of <<key, value>> pairs kept in   *)
(* the order of Expression::less, searched from the front.                 *)
(* A raised exception is the record Raise(what); every operator is strict  *)
(* in it.  The build modelled is the one without NDEBUG: it is the only    *)
(* one in which SMATS_NOT_IMPLEMENTED is defined (util/error.h:85), so     *)
(* SMATS_ASSERT and SMATS_UNREACHABLE throw.                               *)
(***************************************************************************)
EXTENDS Integers, Sequences, FiniteSets, TLC

VARIABLES reg, heap, last, map_, pc

vars == <<reg, heap, last, map_, pc>>

\* ------------------------------------------------------------------ bounds
NumVars == 2
MaxConst == 2
MaxNeg == 1
MaxSize == 2
MaxExpandSize == 3
MaxDepth == 6
MaxQuerySize == 3
MaxNaNSize == 4
MaxHalf == 4

VarIds == 1..NumVars
Scalars == (0 - MaxNeg)..MaxConst
EnvValues == {0, MaxConst}

\* ------------------------------------------------------------------ cells
Constant(v) == [kind |-> "Constant", value |-> v]
Var(id) == [kind |-> "Var", var |-> id]
NaNCell == [kind |-> "NaN"]
Add(c, m) == [kind |-> "Add", constant |-> c, map |-> m]
Mul(c, m) == [kind |-> "Mul", constant |-> c, map |-> m]
Pow(e1, e2) == [kind |-> "Pow", e1 |-> e1, e2 |-> e2]
Div(e1, e2) == [kind |-> "Div", e1 |-> e1, e2 |-> e2]

\* A thrown exception, as the value of the operation that threw it.
Raise(what) == [kind |-> "Error", what |-> what]
IsErr(e) == e.kind = "Error"

\* enum class ExpressionKind, as the integer operator< compares.
kind_rank(k) ==
  CASE k = "Constant" -> 0
    [] k = "Var" -> 1
    [] k = "Add" -> 2
    [] k = "Mul" -> 3
    [] k = "Div" -> 4
    [] k = "Pow" -> 9
    [] k = "NaN" -> 25

is_constant(e) == e.kind = "Constant"
is_constant_v(e, v) == e.kind = "Constant" /\ e.value = v
is_variable(e) == e.kind = "Var"
is_addition(e) == e.kind = "Add"
is_multiplication(e) == e.kind = "Mul"
is_division(e) == e.kind = "Div"
is_pow(e) == e.kind = "Pow"
is_nan(e) == e.kind = "NaN"

zero == Constant(0)
one == Constant(1)

\* Expression(const T&): the singletons for 0 and 1, a new cell otherwise.
\* The value is the same on the three branches; the cell differs (see Alloc).
ExpressionT(v) == Constant(v)

\* ------------------------------------------------------------------ order
RECURSIVE equal_to(_, _), less(_, _), LexCompare(_, _, _, _)

\* std::equal over two maps of the same size, with the predicate of
\* ExpressionAdd::equal_to (coefficients are scalars) or of
\* ExpressionMul::equal_to (exponents are expressions).
MapEqual(kind, m1, m2) ==
  \A i \in 1..Len(m1) :
    /\ equal_to(m1[i][1], m2[i][1])
    /\ IF kind = "Add" THEN m1[i][2] = m2[i][2] ELSE equal_to(m1[i][2], m2[i][2])

\* The comparator handed to std::lexicographical_compare by
\* ExpressionAdd::less and ExpressionMul::less, with the test the source
\* writes twice.
PairLess(kind, l, r) ==
  IF less(l[1], r[1]) THEN TRUE
  ELSE IF less(l[1], r[1]) THEN FALSE
  ELSE IF kind = "Add" THEN l[2] < r[2] ELSE less(l[2], r[2])

\* std::lexicographical_compare from position i on.
LexCompare(kind, m1, m2, i) ==
  IF i > Len(m1) \/ i > Len(m2) THEN i > Len(m1) /\ i <= Len(m2)
  ELSE IF PairLess(kind, m1[i], m2[i]) THEN TRUE
  ELSE IF PairLess(kind, m2[i], m1[i]) THEN FALSE
  ELSE LexCompare(kind, m1, m2, i + 1)

\* The virtual ExpressionCell::equal_to of each kind (same kind required).
cell_equal_to(a, b) ==
  CASE a.kind = "Constant" -> a.value = b.value
    [] a.kind = "Var" -> a.var = b.var
    [] a.kind = "NaN" -> FALSE
    [] a.kind \in {"Add", "Mul"} ->
         IF a.constant # b.constant \/ Len(a.map) # Len(b.map) THEN FALSE
         ELSE MapEqual(a.kind, a.map, b.map)
    [] a.kind \in {"Pow", "Div"} -> equal_to(a.e1, b.e1) /\ equal_to(a.e2, b.e2)

\* The virtual ExpressionCell::less of each kind (same kind required).
cell_less(a, b) ==
  CASE a.kind = "Constant" -> a.value < b.value
    [] a.kind = "Var" -> a.var < b.var
    [] a.kind = "NaN" -> FALSE
    [] a.kind \in {"Add", "Mul"} ->
         IF a.constant < b.constant THEN TRUE
         ELSE IF b.constant < a.constant THEN FALSE
         ELSE LexCompare(a.kind, a.map, b.map, 1)
    [] a.kind \in {"Pow", "Div"} ->
         less(a.e1, b.e1) \/ (equal_to(a.e1, b.e1) /\ less(a.e2, b.e2))

\* Expression::equal_to without its first test, cell_ == e.cell_.
equal_to_without_identity(a, b) ==
  IF a.kind # b.kind THEN FALSE ELSE cell_equal_to(a, b)

\* Expression::equal_to.  The first test of the source is cell_ == e.cell_.
\* Children are held by value here, so the pointer test is modelled by what
\* it decides: every NaN handle is a copy of the one static of
\* Expression::NaN(), so two NaN handles always hold the same cell; for the
\* other kinds the same cell is structurally equal to itself anyway.
equal_to(a, b) ==
  IF a.kind = "NaN" /\ b.kind = "NaN" THEN TRUE
  ELSE IF a.kind # b.kind THEN FALSE
  ELSE cell_equal_to(a, b)

\* Expression::less.
less(a, b) ==
  IF kind_rank(a.kind) < kind_rank(b.kind) THEN TRUE
  ELSE IF kind_rank(b.kind) < kind_rank(a.kind) THEN FALSE
  ELSE cell_less(a, b)

\* ------------------------------------------------------------------ std::map
\* Position of the first entry whose key is not less than k (lower_bound).
FirstOf(S, none) == IF S = {} THEN none ELSE CHOOSE i \in S : \A j \in S : i <= j
LowerBound(m, k) == FirstOf({i \in 1..Len(m) : ~less(m[i][1], k)}, Len(m) + 1)

\* std::map::find: the position of the entry equivalent to k, 0 if none.
FindAt(m, k, i) == IF i <= Len(m) /\ ~less(k, m[i][1]) THEN i ELSE 0
MapFind(m, k) == FindAt(m, k, LowerBound(m, k))

\* The map with <<k, v>> inserted at its place in the order.
InsertAt(m, i, k, v) == SubSeq(m, 1, i - 1) \o << <<k, v>> >> \o SubSeq(m, i, Len(m))
MapInsert(m, k, v) == InsertAt(m, LowerBound(m, k), k, v)

\* The map without its i-th entry (std::map::erase).
MapErase(m, i) == SubSeq(m, 1, i - 1) \o SubSeq(m, i + 1, Len(m))

\* ------------------------------------------------------------------ scalars
\* T = int.  is_integer<int> is constantly true (symbolic_util.cpp:14).
is_integer(v) == TRUE

\* int / int of C++: the quotient truncated towards zero (d # 0).
TruncDiv(n, d) ==
  LET an == IF n < 0 THEN 0 - n ELSE n
      ad == IF d < 0 THEN 0 - d ELSE d
      q == an \div ad
  IN IF (n < 0) = (d < 0) THEN q ELSE 0 - q

RECURSIVE NatPow(_, _)
NatPow(b, e) == IF e = 0 THEN 1 ELSE b * NatPow(b, e - 1)

\* std::pow(0, e) with e < 0 is infinite, and static_cast<int> of it is
\* undefined: the one case the cast has no value.
pow_defined(b, e) == ~(b = 0 /\ e < 0)

\* static_cast<int>(std::pow(b, e)) where it is defined: for e < 0 the
\* quotient 1 / b^(-e) truncated towards zero.
int_pow(b, e) == IF e >= 0 THEN NatPow(b, e) ELSE TruncDiv(1, NatPow(b, 0 - e))

\* The accessors Expression::lhs and Expression::rhs: only Pow and Div have
\* operands, every other kind reaches SMATS_UNREACHABLE.
lhs(e) == IF e.kind \in {"Pow", "Div"} THEN e.e1 ELSE Raise("unreachable")
rhs(e) == IF e.kind \in {"Pow", "Div"} THEN e.e2 ELSE Raise("unreachable")

\* Expression::is_leaf is declared (expression.h:339) and used by the
\* constructor of ExpressionPow, and defined nowhere in the sources at hand:
\* a leaf is a Constant or a Var, the two cells without children.
is_leaf(e) == e.kind \in {"Constant", "Var"}

\* The flag is_expanded_ a cell is constructed with; set_expanded is never
\* called, so the flag is a function of the cell.
is_expanded(e) ==
  CASE e.kind \in {"Constant", "Var"} -> TRUE
    [] e.kind = "Pow" -> is_leaf(e.e1) /\ is_leaf(e.e2)
    [] OTHER -> FALSE

\* ------------------------------------------------------------------ factories
RECURSIVE AddAssignE(_, _), AddAssignT(_, _), MulAssignE(_, _), MulAssignT(_, _)
RECURSIVE DivAssignE(_, _), PowAssign(_, _)

\* ExpressionAddFactory(const ExpressionCell&).
AddFactory(e) ==
  CASE e.kind = "Constant" -> [kind |-> "AddFactory", constant |-> e.value, map |-> <<>>]
    [] e.kind = "Add" -> [kind |-> "AddFactory", constant |-> e.constant, map |-> e.map]
    [] OTHER -> [kind |-> "AddFactory", constant |-> 0, map |-> << <<e, 1>> >>]

\* expr_to_coeff_map_[e] += c: operator[] inserts the coefficient 0 for a
\* new key; nothing removes an entry whose coefficient becomes 0.
AddCoeffAt(m, e, c, i) ==
  IF i # 0 THEN [m EXCEPT ![i] = <<m[i][1], m[i][2] + c>>]
  ELSE MapInsert(m, e, 0 + c)
AddCoeff(m, e, c) == AddCoeffAt(m, e, c, MapFind(m, e))

RECURSIVE AddCoeffs(_, _, _)
AddCoeffs(m, om, i) ==
  IF i > Len(om) THEN m ELSE AddCoeffs(AddCoeff(m, om[i][1], om[i][2]), om, i + 1)

\* ExpressionAddFactory::operator+=(const ExpressionCell&).
AddFactory_add(f, o) ==
  IF IsErr(f) THEN f
  ELSE IF IsErr(o) THEN o
  ELSE CASE o.kind = "Constant" -> [f EXCEPT !.constant = f.constant + o.value]
         [] o.kind = "Add" ->
              [f EXCEPT !.constant = f.constant + o.constant,
                        !.map = AddCoeffs(f.map, o.map, 1)]
         [] o.kind = "Mul" -> IF o.constant # 1 THEN Raise("unreachable") ELSE f
         [] OTHER -> [f EXCEPT !.map = AddCoeff(f.map, o, 1)]

\* ExpressionAddFactory::negate.
AddFactory_negate(f) ==
  [f EXCEPT !.constant = 0 - f.constant,
            !.map = [i \in 1..Len(f.map) |-> <<f.map[i][1], 0 - f.map[i][2]>>]]

\* ExpressionAddFactory::build.
AddFactory_build(f) ==
  IF IsErr(f) THEN f
  ELSE IF f.constant = 0 /\ Len(f.map) = 0 THEN zero
  ELSE IF f.constant = 0 /\ Len(f.map) = 1 THEN
    IF f.map[1][2] = 1 THEN f.map[1][1]
    ELSE Mul(f.map[1][2], << <<f.map[1][1], ExpressionT(1)>> >>)
  ELSE Add(f.constant, f.map)

\* ExpressionMulFactory(const ExpressionCell&).
MulFactory(e) ==
  CASE e.kind = "Constant" -> [kind |-> "MulFactory", constant |-> e.value, map |-> <<>>]
    [] e.kind = "Mul" -> [kind |-> "MulFactory", constant |-> e.constant, map |-> e.map]
    [] e.kind = "Pow" -> [kind |-> "MulFactory", constant |-> 1, map |-> << <<e.e1, e.e2>> >>]
    [] OTHER -> [kind |-> "MulFactory", constant |-> 1, map |-> << <<e, one>> >>]

\* base_to_exponent_map_[b] += e: operator[] inserts Expression() = 0 for a
\* new base, and the sum is Expression::operator+=.
MulExponentPut(f, b, i, n) ==
  IF IsErr(n) THEN n
  ELSE IF i # 0 THEN [f EXCEPT !.map = [f.map EXCEPT ![i] = <<f.map[i][1], n>>]]
  ELSE [f EXCEPT !.map = MapInsert(f.map, b, n)]
MulExponentAt(f, b, e, i) ==
  MulExponentPut(f, b, i, AddAssignE(IF i # 0 THEN f.map[i][2] ELSE zero, e))
MulExponentAdd(f, b, e) == MulExponentAt(f, b, e, MapFind(f.map, b))

RECURSIVE MulExponentsAdd(_, _, _)
MulExponentsAdd(f, om, i) ==
  IF IsErr(f) \/ i > Len(om) THEN f
  ELSE MulExponentsAdd(MulExponentAdd(f, om[i][1], om[i][2]), om, i + 1)

\* ExpressionMulFactory::multiply(const Expression& base, const Expression& exponent).
\* The base is in the map at position i: its exponent becomes new_exponent,
\* and the entry is erased when that is 0.
MultiplyPut(f, i, new_exponent) ==
  IF IsErr(new_exponent) THEN new_exponent
  ELSE IF is_constant_v(new_exponent, 0) THEN [f EXCEPT !.map = MapErase(f.map, i)]
  ELSE [f EXCEPT !.map = [f.map EXCEPT ![i] = <<f.map[i][1], new_exponent>>]]
\* i is what base_to_exponent_map_.find(base) returns, 0 for end().
MultiplyAt(f, base, exponent, i) ==
  IF i = 0 THEN [f EXCEPT !.map = MapInsert(f.map, base, exponent)]
  ELSE MultiplyPut(f, i, AddAssignE(f.map[i][2], exponent))
RECURSIVE MulFactory_multiply(_, _, _)
MulFactory_multiply(f, base, exponent) ==
  IF IsErr(exponent) THEN exponent
  ELSE IF is_pow(base) /\ is_constant(exponent) /\ is_constant(base.e2)
          /\ is_integer(base.e2.value) THEN
    MulFactory_multiply(f, base.e1, MulAssignT(exponent, base.e2.value))
  ELSE MultiplyAt(f, base, exponent, MapFind(f.map, base))

\* ExpressionMulFactory::operator*=(const ExpressionCell&).
MulFactory_mul(f, o) ==
  IF IsErr(f) THEN f
  ELSE IF IsErr(o) THEN o
  ELSE IF f.constant = 0 THEN f
  ELSE CASE o.kind = "Constant" ->
              IF o.value = 0 THEN [f EXCEPT !.constant = 0, !.map = <<>>]
              ELSE [f EXCEPT !.constant = f.constant * o.value]
         [] o.kind = "Mul" ->
              MulExponentsAdd([f EXCEPT !.constant = f.constant * o.constant], o.map, 1)
         [] o.kind = "Pow" -> MulFactory_multiply(f, o.e1, o.e2)
         [] OTHER -> MulExponentAdd(f, o, one)

\* ExpressionMulFactory::negate.
MulFactory_negate(f) == [f EXCEPT !.constant = 0 - f.constant]

\* ExpressionMulFactory::build.
MulFactory_build(f) ==
  IF IsErr(f) THEN f
  ELSE IF f.constant = 0 THEN zero
  ELSE IF Len(f.map) = 0 THEN ExpressionT(f.constant)
  ELSE IF f.constant = 1 /\ Len(f.map) = 1 THEN
    IF is_constant_v(f.map[1][2], 1) THEN f.map[1][1]
    ELSE Pow(f.map[1][1], f.map[1][2])
  ELSE Mul(f.constant, f.map)

\* ExpressionMulFactory::consume is declared (expression_factory.h:79) and
\* defined nowhere in the sources at hand: it yields the expression built.
MulFactory_consume(f) == MulFactory_build(f)

\* ---------------------------------------------------------------- Expression
\* The operators below give the value the handle holds after the compound
\* assignment; which handle and which cell receive it is decided by the
\* actions.  A binary operator is its compound assignment applied to a copy
\* (util/definitions.h:79-84).

\* Expression::constant(), on the kinds that pass its switch.
constant(e) == IF e.kind = "Constant" THEN e.value ELSE e.constant

\* Expression::operator-().
Neg(a) ==
  IF IsErr(a) THEN a
  ELSE IF is_constant(a) THEN ExpressionT(0 - constant(a))
  ELSE IF is_addition(a) THEN AddFactory_build(AddFactory_negate(AddFactory(a)))
  ELSE IF is_multiplication(a) THEN MulFactory_build(MulFactory_negate(MulFactory(a)))
  ELSE MulAssignE(ExpressionT(0 - 1), a)

\* Expression::operator+=(const T&).
AddAssignT(a, o) ==
  IF IsErr(a) THEN a
  ELSE IF is_constant_v(a, 0) THEN ExpressionT(o)
  ELSE IF is_constant(a) THEN ExpressionT(constant(a) + o)
  ELSE AddFactory_build(
         AddFactory_add(AddFactory(IF is_addition(a) THEN a ELSE ExpressionT(o)),
                        IF is_addition(a) THEN ExpressionT(o) ELSE a))

\* Expression::operator-=(const T&).
SubAssignT(a, o) ==
  IF IsErr(a) THEN a
  ELSE IF is_constant(a) THEN ExpressionT(constant(a) - o)
  ELSE AddAssignT(a, 0 - o)

\* Expression::operator+=(const Expression&).
AddAssignE(a, o) ==
  IF IsErr(a) THEN a
  ELSE IF IsErr(o) THEN o
  ELSE IF is_constant_v(a, 0) THEN o
  ELSE IF is_constant_v(o, 0) THEN a
  ELSE IF is_constant(a) /\ is_constant(o) THEN ExpressionT(constant(a) + constant(o))
  ELSE AddFactory_build(
         AddFactory_add(AddFactory(IF is_addition(a) THEN a ELSE o),
                        IF is_addition(a) THEN o ELSE a))

\* Expression::operator-=(const Expression&) with the two constants added.
SubAssignE_adding(a, o) ==
  IF IsErr(a) THEN a
  ELSE IF IsErr(o) THEN o
  ELSE IF is_constant(a) /\ is_constant(o) THEN ExpressionT(constant(a) + constant(o))
  ELSE AddAssignE(a, Neg(o))

\* Expression::operator-=(const Expression&).
SubAssignE(a, o) ==
  IF IsErr(a) THEN a
  ELSE IF IsErr(o) THEN o
  ELSE IF is_constant(a) /\ is_constant(o) THEN ExpressionT(constant(a) - constant(o))
  ELSE AddAssignE(a, Neg(o))

\* The product and the quotient call each other (expression.cpp:264, 402-410,
\* 467) and nothing bounds the nesting: the third argument is the room left
\* on the call stack, and a call that finds none overflows it.
StackOverflow == [kind |-> "Error", what |-> "stack_overflow"]
RECURSIVE MulAssignE_at(_, _, _), MulAssignT_at(_, _, _), DivAssignE_at(_, _, _)

\* Expression::operator*=(const T&).
MulAssignT_at(a, o, d) ==
  IF d = 0 THEN StackOverflow
  ELSE IF IsErr(a) THEN a
  ELSE IF is_constant_v(a, 1) THEN ExpressionT(o)
  ELSE IF is_constant_v(a, 0) THEN a
  ELSE IF o = 1 THEN a
  ELSE IF o = 0 THEN zero
  ELSE IF is_division(a) THEN DivAssignE_at(MulAssignT_at(lhs(a), o, d - 1), rhs(a), d - 1)
  ELSE IF is_constant(a) THEN ExpressionT(constant(a) * o)
  ELSE IF o = 0 - 1 /\ is_addition(a) THEN
    AddFactory_build(AddFactory_negate(AddFactory(a)))
  ELSE IF o = 0 - 1 /\ is_multiplication(a) THEN
    MulFactory_build(MulFactory_negate(MulFactory(a)))
  ELSE IF is_pow(a) /\ equal_to(lhs(a), ExpressionT(o)) THEN
    PowAssign(lhs(a), AddAssignT(rhs(a), 1))
  ELSE MulFactory_build(
         MulFactory_mul(MulFactory(IF is_multiplication(a) THEN a ELSE ExpressionT(o)),
                        IF is_multiplication(a) THEN ExpressionT(o) ELSE a))

\* Expression::operator*=(const Expression&), lines 412-439: the power rules.
\* The result is "none" when no power rule applies.
NoRule == [kind |-> "none"]
MulPowRules(a, o) ==
  IF is_pow(a) THEN
    IF is_pow(o) /\ equal_to(lhs(a), lhs(o)) THEN
      PowAssign(lhs(a), AddAssignE(rhs(a), rhs(o)))
    ELSE IF equal_to(lhs(a), o) THEN PowAssign(lhs(a), AddAssignT(rhs(a), 1))
    ELSE NoRule
  ELSE IF is_pow(o) /\ equal_to(lhs(o), a) THEN
    PowAssign(lhs(o), AddAssignT(rhs(o), 1))
  ELSE NoRule

\* Expression::operator*=(const Expression&), lines 412-448: the power rule
\* that applies (rule), or x * x = x^2, or the product the factory builds.
MulAssignRest(a, o, rule) ==
  IF rule # NoRule THEN rule
  ELSE IF ~is_multiplication(a) /\ ~is_multiplication(o) /\ equal_to(a, o) THEN
    PowAssign(lhs(a), ExpressionT(2))
  ELSE MulFactory_build(
         MulFactory_mul(MulFactory(IF is_multiplication(a) THEN a ELSE o),
                        IF is_multiplication(a) THEN o ELSE a))

\* Expression::operator*=(const Expression&).
MulAssignE_at(a, o, d) ==
  IF d = 0 THEN StackOverflow
  ELSE IF IsErr(a) THEN a
  ELSE IF IsErr(o) THEN o
  ELSE IF is_constant_v(a, 1) THEN o
  ELSE IF is_constant_v(o, 1) THEN a
  ELSE IF is_constant_v(a, 0) THEN a
  ELSE IF is_constant_v(o, 0) THEN zero
  ELSE IF is_constant(a) /\ is_constant(o) THEN ExpressionT(constant(a) * constant(o))
  ELSE IF is_constant_v(a, 0 - 1) /\ is_addition(o) THEN
    AddFactory_build(AddFactory_negate(AddFactory(o)))
  ELSE IF is_constant_v(a, 0 - 1) /\ is_multiplication(o) THEN
    MulFactory_build(MulFactory_negate(MulFactory(o)))
  ELSE IF is_constant_v(o, 0 - 1) /\ is_addition(a) THEN
    AddFactory_build(AddFactory_negate(AddFactory(a)))
  ELSE IF is_constant_v(o, 0 - 1) /\ is_multiplication(a) THEN
    MulFactory_build(MulFactory_negate(MulFactory(a)))
  ELSE IF is_division(a) /\ is_division(o) THEN
    DivAssignE_at(MulAssignE_at(lhs(a), lhs(o), d - 1),
                  MulAssignE_at(rhs(a), rhs(o), d - 1), d - 1)
  ELSE IF is_division(a) /\ is_constant(lhs(a)) THEN
    DivAssignE_at(MulAssignT_at(o, constant(lhs(a)), d - 1), rhs(a), d - 1)
  ELSE IF is_division(o) /\ is_constant(lhs(o)) THEN
    DivAssignE_at(MulAssignT_at(lhs(a), constant(lhs(o)), d - 1), rhs(o), d - 1)
  ELSE MulAssignRest(a, o, MulPowRules(a, o))

\* Expression::operator/=(const Expression&).
DivAssignE_at(a, o, d) ==
  IF d = 0 THEN StackOverflow
  ELSE IF IsErr(a) THEN a
  ELSE IF IsErr(o) THEN o
  ELSE IF is_constant_v(o, 0) THEN NaNCell
  ELSE IF is_constant_v(o, 1) THEN a
  ELSE IF is_constant_v(a, 0) THEN a
  ELSE IF equal_to(a, o) THEN one
  ELSE IF is_constant(a) /\ is_constant(o) THEN
    ExpressionT(TruncDiv(constant(a), constant(o)))
  ELSE MulAssignE_at(a, Div(a, o), d - 1)

\* The operators as called from outside, with the whole stack before them.
MulAssignT(a, o) == MulAssignT_at(a, o, MaxDepth)
MulAssignE(a, o) == MulAssignE_at(a, o, MaxDepth)
DivAssignE(a, o) == DivAssignE_at(a, o, MaxDepth)

\* Expression::operator/=(const T&) with the test of *this for 0 made before
\* the test of the divisor.
DivAssignT_zero_first(a, o) ==
  IF IsErr(a) THEN a
  ELSE IF is_constant_v(a, 0) THEN a
  ELSE IF o = 0 THEN NaNCell
  ELSE IF o = 1 THEN a
  ELSE IF is_constant_v(a, o) THEN one
  ELSE IF is_constant(a) THEN ExpressionT(TruncDiv(constant(a), o))
  ELSE MulAssignE(a, Div(a, ExpressionT(o)))

\* Expression::operator/=(const T&).
DivAssignT(a, o) ==
  IF IsErr(a) THEN a
  ELSE IF o = 0 THEN NaNCell
  ELSE IF is_constant_v(a, 0) THEN a
  ELSE IF o = 1 THEN a
  ELSE IF is_constant_v(a, o) THEN one
  ELSE IF is_constant(a) THEN ExpressionT(TruncDiv(constant(a), o))
  ELSE MulAssignE(a, Div(a, ExpressionT(o)))

\* static_cast<int>(std::pow(0, negative)) converts an infinity to int, which
\* the language leaves undefined; the outcome is kept apart from every value
\* and every exception.
Undefined == [kind |-> "Error", what |-> "undefined"]

\* Expression::operator^=(const Expression&) without its simplifications.
PowAssign_unsimplified(a, o) ==
  IF IsErr(a) THEN a ELSE IF IsErr(o) THEN o ELSE Pow(a, o)

\* Expression::operator^=(const Expression&).
PowAssign(a, o) ==
  IF IsErr(a) THEN a
  ELSE IF IsErr(o) THEN o
  ELSE IF is_constant(o) /\ is_constant(a) THEN
    IF pow_defined(constant(a), constant(o))
    THEN ExpressionT(int_pow(constant(a), constant(o)))
    ELSE Undefined
  ELSE IF is_constant_v(o, 0) THEN one
  ELSE IF is_constant_v(o, 1) THEN a
  ELSE IF is_pow(a) /\ is_constant(rhs(a)) /\ is_constant(o) THEN
    IF IsErr(rhs(o)) THEN rhs(o)
    ELSE IF ~(rhs(o).kind \in {"Constant", "Add", "Mul"}) THEN Raise("unreachable")
    ELSE IF is_integer(constant(rhs(o))) /\ is_integer(constant(o)) THEN
      Pow(lhs(a), ExpressionT(constant(rhs(o)) * constant(o)))
    ELSE Pow(a, o)
  ELSE Pow(a, o)

\* operator-(const T&, const Expression&), operator/(const T&, const
\* Expression&), operator^(const T&, const Expression&).
T_minus(c, e) == SubAssignE(ExpressionT(c), e)
T_div(c, e) == DivAssignE(ExpressionT(c), e)
T_pow(c, e) == PowAssign(ExpressionT(c), e)

\* ------------------------------------------------------------------ evaluate
\* An environment is a function from the variables it binds to their values
\* (Environment::map_); evaluation yields Val(n) or an exception.
Val(n) == [kind |-> "Value", v |-> n]

\* Environment::at.
env_at(env, id) == IF id \in DOMAIN env THEN Val(env[id]) ELSE Raise("out_of_range")

RECURSIVE evaluate(_, _)

\* ExpressionAdd::evaluate: std::accumulate from constant_.
RECURSIVE AddAccumulate(_, _, _, _)
AddAccumulate(m, i, acc, env) ==
  IF i > Len(m) THEN Val(acc)
  ELSE LET r == evaluate(m[i][1], env)
       IN IF IsErr(r) THEN r ELSE AddAccumulate(m, i + 1, acc + m[i][2] * r.v, env)

\* ExpressionMul::evaluate: std::accumulate from constant_; the lambda
\* evaluates the exponent first and returns the bare power for an exponent
\* other than 0 and 1.
RECURSIVE MulAccumulate(_, _, _, _)
MulAccumulate(m, i, init, env) ==
  IF i > Len(m) THEN Val(init)
  ELSE LET exponent == evaluate(m[i][2], env)
           base == evaluate(m[i][1], env)
       IN IF IsErr(exponent) THEN exponent
          ELSE IF exponent.v = 1 THEN
            IF IsErr(base) THEN base ELSE MulAccumulate(m, i + 1, init * base.v, env)
          ELSE IF exponent.v = 0 THEN MulAccumulate(m, i + 1, init, env)
          ELSE IF IsErr(base) THEN base
          ELSE IF ~pow_defined(base.v, exponent.v) THEN Undefined
          ELSE MulAccumulate(m, i + 1, int_pow(base.v, exponent.v), env)

\* ExpressionPow::do_evaluate and ExpressionDiv::do_evaluate.
Pow_do_evaluate(num, den) ==
  IF pow_defined(num, den) THEN Val(int_pow(num, den)) ELSE Undefined
Div_do_evaluate(num, den) ==
  IF den = 0 THEN Raise("runtime_error") ELSE Val(TruncDiv(num, den))

\* Expression::evaluate -> ExpressionCell::evaluate of each kind.  The two
\* operands of a binary cell are evaluated in an order the language leaves
\* open; either failure makes the call fail.
evaluate(e, env) ==
  CASE e.kind = "Constant" -> Val(e.value)
    [] e.kind = "Var" -> env_at(env, e.var)
    [] e.kind = "NaN" -> Raise("runtime_error")
    [] e.kind = "Add" -> AddAccumulate(e.map, 1, e.constant, env)
    [] e.kind = "Mul" -> MulAccumulate(e.map, 1, e.constant, env)
    [] e.kind \in {"Pow", "Div"} ->
         LET v1 == evaluate(e.e1, env)
             v2 == evaluate(e.e2, env)
         IN IF IsErr(v1) THEN v1
            ELSE IF IsErr(v2) THEN v2
            ELSE IF e.kind = "Pow" THEN Pow_do_evaluate(v1.v, v2.v)
            ELSE Div_do_evaluate(v1.v, v2.v)

\* -------------------------------------------------------------------- expand
RECURSIVE expand(_), cell_expand(_), expand_multiplication(_, _)
RECURSIVE expand_pow_n(_, _), expand_pow(_, _)

\* SMATS_ASSERT(e.equal_to(e.expand()), ...): the exception of the expansion,
\* the assertion failure, or Passed.
Passed == [kind |-> "passed"]
assert_expanded(e) ==
  IF IsErr(expand(e)) THEN expand(e)
  ELSE IF ~equal_to(e, expand(e)) THEN Raise("assertion")
  ELSE Passed

\* expand_multiplication, first loop: ret += expand_multiplication(
\*   expand_multiplication(Expression{coeff}, exp), e2).
RECURSIVE ExpandMulLeft(_, _, _, _)
ExpandMulLeft(m, i, ret, e2) ==
  IF IsErr(ret) \/ i > Len(m) THEN ret
  ELSE ExpandMulLeft(m, i + 1,
         AddAssignE(ret,
           expand_multiplication(
             expand_multiplication(ExpressionT(m[i][2]), m[i][1]), e2)),
         e2)

\* expand_multiplication, second loop: ret += expand_multiplication(
\*   expand_multiplication(e1, Expression{coeff}), exp).
RECURSIVE ExpandMulRight(_, _, _, _)
ExpandMulRight(m, i, ret, e1) ==
  IF IsErr(ret) \/ i > Len(m) THEN ret
  ELSE ExpandMulRight(m, i + 1,
         AddAssignE(ret,
           expand_multiplication(
             expand_multiplication(e1, ExpressionT(m[i][2])), m[i][1])),
         e1)

\* expand_multiplication(const Expression&, const Expression&).
expand_multiplication(e1, e2) ==
  IF IsErr(e1) THEN e1
  ELSE IF IsErr(e2) THEN e2
  ELSE IF assert_expanded(e1) # Passed THEN assert_expanded(e1)
  ELSE IF assert_expanded(e2) # Passed THEN assert_expanded(e2)
  ELSE IF is_addition(e1) THEN
    ExpandMulLeft(e1.map, 1, expand_multiplication(ExpressionT(constant(e1)), e2), e2)
  ELSE IF is_addition(e2) THEN
    ExpandMulRight(e2.map, 1, expand_multiplication(e1, ExpressionT(constant(e2))), e1)
  ELSE MulAssignE(e1, e2)

\* expand_pow(const Expression& base, const int n).
expand_pow_n(base, n) ==
  IF IsErr(base) THEN base
  ELSE IF assert_expanded(base) # Passed THEN assert_expanded(base)
  ELSE IF ~(n >= 1) THEN Raise("assertion")
  ELSE IF n = 0 THEN one
  ELSE IF n = 1 THEN base
  ELSE LET pow_half == expand_pow_n(base, TruncDiv(n, 2))
       IN IF n % 2 = 1
          THEN expand_multiplication(expand_multiplication(base, pow_half), pow_half)
          ELSE expand_multiplication(pow_half, pow_half)

\* expand_pow, the loop p.second = p.second * exponent over a copy of the map.
RECURSIVE ScaleExponents(_, _, _)
ScaleExponent(f, i, n) ==
  IF IsErr(n) THEN n ELSE [f EXCEPT !.map = [f.map EXCEPT ![i] = <<f.map[i][1], n>>]]
ScaleExponents(f, i, exponent) ==
  IF IsErr(f) \/ i > Len(f.map) THEN f
  ELSE ScaleExponents(ScaleExponent(f, i, MulAssignE(f.map[i][2], exponent)),
                      i + 1, exponent)

\* expand_pow(const Expression& base, const Expression& exponent).
expand_pow(base, exponent) ==
  IF IsErr(base) THEN base
  ELSE IF IsErr(exponent) THEN exponent
  ELSE IF assert_expanded(base) # Passed THEN assert_expanded(base)
  ELSE IF assert_expanded(exponent) # Passed THEN assert_expanded(exponent)
  ELSE IF is_multiplication(base) THEN
    MulAssignE(T_pow(constant(base), exponent),
               MulFactory_consume(
                 ScaleExponents([kind |-> "MulFactory", constant |-> 1, map |-> base.map],
                                1, exponent)))
  ELSE IF ~is_addition(base) \/ ~is_constant(exponent) THEN PowAssign(base, exponent)
  ELSE IF constant(exponent) <= 0 \/ ~is_integer(constant(exponent)) THEN
    PowAssign(base, exponent)
  ELSE expand_pow_n(base, constant(exponent))

\* ExpressionAdd::expand: result += Expression{expr * coeff}.expand().
RECURSIVE AddExpand(_, _, _)
AddExpand(m, i, result) ==
  IF IsErr(result) \/ i > Len(m) THEN result
  ELSE AddExpand(m, i + 1, AddAssignE(result, expand(MulAssignT(m[i][1], m[i][2]))))

\* ExpressionMul::expand: std::accumulate from Expression{constant_}.
RECURSIVE MulExpand(_, _, _)
MulExpand(m, i, init) ==
  IF IsErr(init) \/ i > Len(m) THEN init
  ELSE MulExpand(m, i + 1,
         expand_multiplication(init,
           expand_pow(IF is_expanded(m[i][1]) THEN m[i][1] ELSE expand(m[i][1]),
                      IF is_expanded(m[i][2]) THEN m[i][2] ELSE expand(m[i][2]))))

\* ExpressionCell::expand of each kind.
cell_expand(e) ==
  CASE e.kind \in {"Constant", "Var"} -> e
    [] e.kind = "NaN" -> Raise("runtime_error")
    [] e.kind = "Add" -> AddExpand(e.map, 1, ExpressionT(e.constant))
    [] e.kind = "Mul" -> MulExpand(e.map, 1, ExpressionT(e.constant))
    [] e.kind = "Pow" -> expand_pow(expand(e.e1), expand(e.e2))
    [] e.kind = "Div" ->
         LET e1 == IF is_expanded(e.e1) THEN e.e1 ELSE expand(e.e1)
             e2 == IF is_expanded(e.e2) THEN e.e2 ELSE expand(e.e2)
         IN IF IsErr(e1) THEN e1
            ELSE IF IsErr(e2) THEN e2
            ELSE Raise("not_implemented")

\* Expression::expand.
expand(e) ==
  IF IsErr(e) THEN e
  ELSE IF is_expanded(e) THEN e
  ELSE cell_expand(e)

\* ------------------------------------------------------------ handles, cells
\* Two handles (Expression objects) named a and b.  reg maps a handle to the
\* address of its cell (cell_), heap maps an address to the cell stored there.
\* Addresses 0, 1 and 2 hold the cells of the function-local statics of
\* Expression::zero(), one() and NaN().  Handles stored inside a cell are kept
\* by value; use_count counts the handles a, b and the statics.
Regs == {"a", "b"}
ZeroAddr == 0
OneAddr == 1
NaNAddr == 2
Singletons == {ZeroAddr, OneAddr, NaNAddr}
Addrs == 0..4
NoAddr == 5
FreeCell == [kind |-> "Free"]
Home(r) == IF r = "a" THEN 3 ELSE 4
val(r) == heap[reg[r]]

\* The owners among the handles a and b only, the statics left out.
use_count_without_statics(x) ==
  Cardinality({r \in Regs : reg[r] = x})

\* std::shared_ptr::use_count of the cell at an address.
use_count(x) ==
  Cardinality({r \in Regs : reg[r] = x}) + (IF x \in Singletons THEN 1 ELSE 0)

\* Number of leaves of an expression, NaN counting as two: the measure the
\* size bounds apply to.
RECURSIVE Weight(_), WeightMap(_, _, _)
WeightMap(kind, m, i) ==
  IF i > Len(m) THEN 0
  ELSE Weight(m[i][1])
       + (IF kind = "Add" THEN (IF m[i][2] = 1 THEN 0 ELSE 1)
          ELSE (IF m[i][2] = one THEN 0 ELSE Weight(m[i][2])))
       + WeightMap(kind, m, i + 1)
Weight(e) ==
  CASE e.kind \in {"Constant", "Var"} -> 1
    [] e.kind = "NaN" -> 2
    [] e.kind = "Add" -> (IF e.constant = 0 THEN 0 ELSE 1) + WeightMap("Add", e.map, 1)
    [] e.kind = "Mul" -> (IF e.constant = 1 THEN 0 ELSE 1) + WeightMap("Mul", e.map, 1)
    [] e.kind \in {"Pow", "Div"} -> Weight(e.e1) + Weight(e.e2)
\* Every scalar stored in an expression lies within the range the model keeps.
RECURSIVE InRange(_)
Small(n) == (0 - MaxNeg) <= n /\ n <= MaxConst
InRange(e) ==
  CASE e.kind = "Constant" -> Small(e.value)
    [] e.kind \in {"Var", "NaN"} -> TRUE
    [] e.kind = "Add" ->
         Small(e.constant)
         /\ \A i \in 1..Len(e.map) : InRange(e.map[i][1]) /\ Small(e.map[i][2])
    [] e.kind = "Mul" ->
         Small(e.constant)
         /\ \A i \in 1..Len(e.map) : InRange(e.map[i][1]) /\ InRange(e.map[i][2])
    [] e.kind \in {"Pow", "Div"} -> InRange(e.e1) /\ InRange(e.e2)

\* The address of a newly allocated cell.  Addresses only name cells, and
\* Commit renames them so that a cell of handle a sits at Home("a") and a
\* cell that only handle b owns at Home("b").
NewAddr(r) == NoAddr

\* The cell of a handle made by Expression(const T&), zero(), one(), NaN()
\* or by allocating.
Fresh(r, v) ==
  IF v = zero THEN ZeroAddr
  ELSE IF v = one THEN OneAddr
  ELSE IF v = NaNCell THEN NaNAddr
  ELSE NewAddr(r)

\* Where the value of an operation ends up: in the cell of *this (mutated in
\* place or returned as it is), in the cell of the operand (*this = o), or in
\* a cell made for it.  NoAddr stands for the cell of a temporary.
Place(r, path, thisAddr, operandAddr, v) ==
  CASE path = "inplace" -> IF thisAddr = NoAddr THEN NewAddr(r) ELSE thisAddr
    [] path = "this" -> IF thisAddr = NoAddr THEN Fresh(r, v) ELSE thisAddr
    [] path = "operand" -> IF operandAddr = NoAddr THEN Fresh(r, v) ELSE operandAddr
    [] OTHER ->
         \* ExpressionAddFactory::build and ExpressionMulFactory::build hand
         \* back the handle of a lone term, which owns the cell it came with.
         IF v.kind \in {"Var", "Pow", "Div"} /\ thisAddr # NoAddr /\ v = heap[thisAddr]
         THEN thisAddr
         ELSE IF v.kind \in {"Var", "Pow", "Div"} /\ operandAddr # NoAddr
                 /\ v = heap[operandAddr]
         THEN operandAddr
         ELSE Fresh(r, v)

\* The assignment to cell_ left out: every handle keeps its cell.
Commit_dropped(r, q, v) == UNCHANGED <<reg, heap, map_>>

\* Handle r now owns the cell at address q, which holds v; a cell no handle
\* owns any more is freed.
Commit(r, q, v) ==
  LET at == [s \in Regs |-> IF s = r THEN q ELSE reg[s]]
      cell == [s \in Regs |-> IF at[s] = q THEN v ELSE heap[at[s]]]
      shared == at["a"] = at["b"]
      named == [s \in Regs |->
                  IF at[s] \in Singletons THEN at[s]
                  ELSE IF shared THEN Home("a")
                  ELSE Home(s)]
  IN /\ reg' = named
     /\ heap' = [x \in Addrs |->
                   IF x \in Singletons THEN (IF x = q THEN v ELSE heap[x])
                   ELSE IF \E s \in Regs : named[s] = x
                   THEN cell[CHOOSE s \in Regs : named[s] = x]
                   ELSE FreeCell]
     /\ UNCHANGED map_

\* --------------------------------------------------------------- operations
Ops == {"+", "-", "*", "/", "^"}
OpsT == {"+", "-", "*", "/"}

\* The compound assignment `*this op= o` as a value.
Apply(op, a, o) ==
  CASE op = "+" -> AddAssignE(a, o)
    [] op = "-" -> SubAssignE(a, o)
    [] op = "*" -> MulAssignE(a, o)
    [] op = "/" -> DivAssignE(a, o)
    [] op = "^" -> PowAssign(a, o)
ApplyT(op, a, c) ==
  CASE op = "+" -> AddAssignT(a, c)
    [] op = "-" -> SubAssignT(a, c)
    [] op = "*" -> MulAssignT(a, c)
    [] op = "/" -> DivAssignT(a, c)

\* The branch `*this op= o` returns from (expression.cpp:324-518): "this" for
\* return *this, "operand" for *this = o, "inplace" for the write through
\* m_cell(), "fresh" for the assignment of a newly made expression.
Fold_unchecked(unique) == "inplace"
Fold(unique) == IF unique THEN "inplace" ELSE "fresh"
Path(op, a, o, unique) ==
  CASE op = "+" ->
         IF is_constant_v(a, 0) THEN "operand"
         ELSE IF is_constant_v(o, 0) THEN "this"
         ELSE IF is_constant(a) /\ is_constant(o) THEN Fold(unique)
         ELSE "fresh"
    [] op = "-" ->
         IF is_constant(a) /\ is_constant(o) THEN Fold(unique)
         ELSE IF is_constant_v(o, 0) THEN "this"
         ELSE "fresh"
    [] op = "*" ->
         IF is_constant_v(a, 1) THEN "operand"
         ELSE IF is_constant_v(o, 1) THEN "this"
         ELSE IF is_constant_v(a, 0) THEN "this"
         ELSE IF is_constant_v(o, 0) THEN "fresh"
         ELSE IF is_constant(a) /\ is_constant(o) THEN Fold(unique)
         ELSE "fresh"
    [] op = "/" ->
         IF is_constant_v(o, 0) THEN "fresh"
         ELSE IF is_constant_v(o, 1) THEN "this"
         ELSE IF is_constant_v(a, 0) THEN "this"
         ELSE IF equal_to(a, o) THEN "fresh"
         ELSE IF is_constant(a) /\ is_constant(o) THEN Fold(unique)
         ELSE "fresh"
    [] op = "^" ->
         IF is_constant(o) /\ is_constant(a) THEN "fresh"
         ELSE IF is_constant_v(o, 0) THEN "fresh"
         ELSE IF is_constant_v(o, 1) THEN "this"
         ELSE "fresh"

\* The same for `*this op= c` with a scalar c (expression.cpp:223-322).
PathT(op, a, c, unique) ==
  CASE op = "+" ->
         IF is_constant_v(a, 0) THEN "fresh"
         ELSE IF is_constant(a) THEN Fold(unique)
         ELSE "fresh"
    [] op = "-" ->
         IF is_constant(a) THEN Fold(unique) ELSE "fresh"
    [] op = "*" ->
         IF is_constant_v(a, 1) THEN "fresh"
         ELSE IF is_constant_v(a, 0) THEN "this"
         ELSE IF c = 1 THEN "this"
         ELSE IF c = 0 THEN "fresh"
         ELSE IF is_division(a) THEN "fresh"
         ELSE IF is_constant(a) THEN Fold(unique)
         ELSE "fresh"
    [] op = "/" ->
         IF c = 0 THEN "fresh"
         ELSE IF is_constant_v(a, 0) THEN "this"
         ELSE IF c = 1 THEN "this"
         ELSE IF is_constant_v(a, c) THEN "fresh"
         ELSE IF is_constant(a) THEN Fold(unique)
         ELSE "fresh"

\* `last` is the outcome of the call the driver made last, Idle once the
\* driver has moved on to preparing operands.  The process runs until a call
\* overflows the stack (Alive); the driver makes a call when it has looked at
\* the outcome of the one before and prepared an operand (Ready).
Idle == [op |-> "none"]
Alive == ~("path" \in DOMAIN last /\ last.path = "crash")
Ready == last = Idle

\* What a call leaves behind: the record of the call in `last`, and the
\* handle r on the value unless the call raised.  n is the largest size the
\* model lets r hold: a compound assignment whose value is larger is left
\* out, the value of an expression is dropped as a temporary instead of being
\* assigned (temporary = TRUE).  A call whose outcome the language leaves
\* undefined may leave any scalar.
Record(op, form, l, o, res, path) ==
  [op |-> op, form |-> form, lhs |-> l, rhs |-> o, res |-> res, path |-> path]
Fits(res, n) == Weight(res) <= n /\ InRange(res)
Finish(r, op, form, l, o, res, path, thisAddr, operandAddr, n, temporary) ==
  IF res = StackOverflow THEN
    /\ UNCHANGED <<reg, heap, map_, pc>>
    /\ last' = Record(op, form, l, o, res, "crash")
  ELSE IF res = Undefined THEN
    /\ \E v \in Scalars : Commit(r, Fresh(r, ExpressionT(v)), ExpressionT(v))
    /\ UNCHANGED pc
    /\ last' = Record(op, form, l, o, res, "undefined")
  ELSE IF IsErr(res) THEN
    /\ UNCHANGED <<reg, heap, map_, pc>>
    /\ last' = Record(op, form, l, o, res, "raise")
  ELSE IF Fits(res, n) THEN
    /\ Commit(r, Place(r, path, thisAddr, operandAddr, res), res)
    /\ UNCHANGED pc
    /\ last' = Record(op, form, l, o, res, path)
  ELSE
    /\ temporary
    /\ UNCHANGED <<reg, heap, map_, pc>>
    /\ last' = Record(op, form, l, o, res, "dropped")

Envs == UNION {[S -> EnvValues] : S \in SUBSET VarIds}

\* Expression(const T&) assigned to handle r.
Construct(r, c) ==
  /\ Alive
  /\ Commit(r, Fresh(r, ExpressionT(c)), ExpressionT(c))
  /\ UNCHANGED pc
  /\ last' = Idle

\* Expression(const Variable&) assigned to handle r.
ConstructVar(r, id) ==
  /\ Alive
  /\ Commit(r, NewAddr(r), Var(id))
  /\ UNCHANGED pc
  /\ last' = Idle

\* Expression::NaN() assigned to handle r.
ConstructNaN(r) ==
  /\ Alive
  /\ Commit(r, NaNAddr, NaNCell)
  /\ UNCHANGED pc
  /\ last' = Idle

\* r = s: the copy shares the cell.
Copy(r, s, n) ==
  /\ Alive
  /\ r # s
  /\ Fits(val(s), n)
  /\ Commit(r, reg[s], val(s))
  /\ UNCHANGED pc
  /\ last' = Idle

\* r op= s with op one of +, -, *, /, ^.
CompoundAssign(r, s, op, n) ==
  /\ Ready
  /\ Finish(r, op, "compound", val(r), val(s), Apply(op, val(r), val(s)),
            Path(op, val(r), val(s), use_count(reg[r]) = 1), reg[r], reg[s],
            n, FALSE)

\* r op= c with a scalar c and op one of +, -, *, /.
CompoundAssignT(r, c, op, n) ==
  /\ Ready
  /\ Finish(r, op, "compoundT", val(r), ExpressionT(c), ApplyT(op, val(r), c),
            PathT(op, val(r), c, use_count(reg[r]) = 1), reg[r], NoAddr,
            n, FALSE)

\* r = s op t: the operator copies s and applies op= to the copy, whose cell
\* has the handle s as a second owner.
Binary(r, s, t, op, n) ==
  /\ Ready
  /\ Finish(r, op, "binary", val(s), val(t), Apply(op, val(s), val(t)),
            Path(op, val(s), val(t), FALSE), reg[s], reg[t], n, TRUE)

\* r = c op s with a scalar on the left (expression.cpp:526-545): c + e and
\* c * e are e + c and e * c; the others apply op= to Expression{c}.
ScalarLeft(r, c, s, op, n) ==
  /\ Ready
  /\ IF op \in {"+", "*"} THEN
       Finish(r, op, "scalar_left", ExpressionT(c), val(s), ApplyT(op, val(s), c),
              PathT(op, val(s), c, FALSE), reg[s], NoAddr, n, TRUE)
     ELSE
       Finish(r, op, "scalar_left", ExpressionT(c), val(s),
              Apply(op, ExpressionT(c), val(s)),
              Path(op, ExpressionT(c), val(s), ~(c \in {0, 1})), NoAddr, reg[s],
              n, TRUE)

\* r = -s.
Negate(r, s, n) ==
  /\ Ready
  /\ Finish(r, "neg", "unary", val(s), val(s), Neg(val(s)), "fresh",
            NoAddr, NoAddr, n, TRUE)

\* r = s.expand().
Expand(r, s, n) ==
  /\ Ready
  /\ Finish(r, "expand", "unary", val(s), val(s), expand(val(s)),
            IF is_expanded(val(s)) THEN "this" ELSE "fresh", reg[s], NoAddr,
            n, TRUE)

\* r.evaluate(env).
Evaluate(r, env) ==
  /\ Ready
  /\ UNCHANGED <<reg, heap, map_, pc>>
  /\ last' = [op |-> "evaluate", lhs |-> val(r), env |-> env,
              res |-> evaluate(val(r), env)]

Init ==
  /\ reg = [r \in Regs |-> ZeroAddr]
  /\ heap = [x \in Addrs |->
               IF x = ZeroAddr THEN zero
               ELSE IF x = OneAddr THEN one
               ELSE IF x = NaNAddr THEN NaNCell
               ELSE FreeCell]
  /\ last = Idle
  /\ map_ = <<>>
  /\ pc = [pos |-> "idle", o |-> 0]

\* Arithmetic on two handles: b is given a constant, a variable or NaN, a
\* holds expressions of up to MaxSize leaves made from it.
Next ==
  \/ \E c \in Scalars : Construct("b", c)
  \/ \E id \in VarIds : ConstructVar("b", id)
  \/ ConstructNaN("b")
  \/ Copy("a", "b", MaxSize)
  \/ \E s \in Regs, op \in Ops : CompoundAssign("a", s, op, MaxSize)
  \/ \E c \in Scalars, op \in OpsT : CompoundAssignT("a", c, op, MaxSize)
  \/ \E s, t \in Regs, op \in Ops : Binary("a", s, t, op, MaxSize)
  \/ \E c \in Scalars, op \in Ops : ScalarLeft("a", c, "a", op, MaxSize)
  \/ Negate("a", "a", MaxSize)

Spec == Init /\ [][Next]_vars

\* Expansion and evaluation: a holds expressions of up to MaxExpandSize
\* leaves built without division, b holds the leaves.
ExpandOps == {"+", "-", "*", "^"}
NextExpand ==
  \/ \E c \in Scalars : Construct("b", c)
  \/ \E id \in VarIds : ConstructVar("b", id)
  \/ Copy("a", "b", MaxExpandSize)
  \/ \E op \in ExpandOps : CompoundAssign("a", "b", op, MaxExpandSize)
  \/ \E op \in ExpandOps : Binary("a", "b", "a", op, MaxExpandSize)
  \/ Expand("a", "a", MaxExpandSize)
  \/ \E env \in Envs : Evaluate("a", env)

SpecExpand == Init /\ [][NextExpand]_vars

\* ------------------------------------------------------------------- claims
\* The environments that bind every variable, the calls that take two
\* expressions, and the outcome "the call returned an expression".
TotalEnvs == [VarIds -> EnvValues]
ExprForms == {"compound", "binary"}
Called(op, forms) == last.op = op /\ last.form \in forms
Built == ~IsErr(last.res)

\* C1: for non-NaN a and b the sum a + b is built without raising, and in
\* every environment in which a and b evaluate it evaluates to
\* evaluate(a) + evaluate(b); the swapped sum is the call with the operands
\* exchanged.
C1_AdditionSound ==
  (Called("+", ExprForms) /\ ~is_nan(last.lhs) /\ ~is_nan(last.rhs)) =>
    /\ Built
    /\ \A env \in TotalEnvs :
         (~IsErr(evaluate(last.lhs, env)) /\ ~IsErr(evaluate(last.rhs, env))) =>
           evaluate(last.res, env)
             = Val(evaluate(last.lhs, env).v + evaluate(last.rhs, env).v)

\* The sum (x1 * x2) + x1 has been computed and is x1.
C1_ProductPlusFactor ==
  /\ Called("+", ExprForms)
  /\ last.lhs = Mul(1, << <<Var(1), one>>, <<Var(2), one>> >>)
  /\ last.rhs = Var(1)
  /\ last.res = Var(1)

\* C2: for a and b with b not the constant 0 or 1, a not the constant 0, a
\* not equal to b and not both constants, a / b is built without raising,
\* evaluates to the quotient of the two values wherever b's value is not 0,
\* and for two distinct variables is the Div cell with lhs a and rhs b.
C2_DivisionBuildsQuotient ==
  (/\ Called("/", ExprForms)
   /\ ~is_constant_v(last.rhs, 0) /\ ~is_constant_v(last.rhs, 1)
   /\ ~is_constant_v(last.lhs, 0) /\ ~equal_to(last.lhs, last.rhs)
   /\ ~(is_constant(last.lhs) /\ is_constant(last.rhs))) =>
    /\ Built
    /\ \A env \in TotalEnvs :
         (/\ ~IsErr(evaluate(last.lhs, env))
          /\ ~IsErr(evaluate(last.rhs, env))
          /\ evaluate(last.rhs, env).v # 0) =>
           evaluate(last.res, env)
             = Val(TruncDiv(evaluate(last.lhs, env).v, evaluate(last.rhs, env).v))
    /\ (is_variable(last.lhs) /\ is_variable(last.rhs)) =>
         last.res = Div(last.lhs, last.rhs)

\* The quotient x1 / x2 has been computed and is the product of x1 and the
\* cell x1 / x2.
C2_QuotientOfVariables ==
  /\ Called("/", ExprForms)
  /\ last.lhs = Var(1)
  /\ last.rhs = Var(2)
  /\ last.res = Mul(1, << <<Var(1), one>>, <<Div(Var(1), Var(2)), one>> >>)

\* The product c * b_1^e_1 * ... * b_n^e_n of the values of the entries of a
\* multiplication map from position i on.
RECURSIVE MapProduct(_, _, _)
MapProduct(m, i, env) ==
  IF i > Len(m) THEN 1
  ELSE int_pow(evaluate(m[i][1], env).v, evaluate(m[i][2], env).v)
       * MapProduct(m, i + 1, env)
MapEvaluates(m, env) ==
  \A i \in 1..Len(m) :
    /\ ~IsErr(evaluate(m[i][1], env))
    /\ ~IsErr(evaluate(m[i][2], env))
    /\ evaluate(m[i][2], env).v >= 0

\* C3: a Mul cell with constant c and factors b_i^e_i evaluates to c times
\* the product of the b_i^e_i, whatever the exponents are.
C3_MulEvaluatesProduct ==
  (/\ last.op = "evaluate"
   /\ is_multiplication(last.lhs)
   /\ MapEvaluates(last.lhs.map, last.env)) =>
    last.res = Val(last.lhs.constant * MapProduct(last.lhs.map, 1, last.env))

\* 2 * x1^2 has been evaluated at x1 = 2 and the result is 4.
C3_SquareLosesConstant ==
  /\ last.op = "evaluate"
  /\ last.lhs = Mul(2, << <<Var(1), Constant(2)>> >>)
  /\ 1 \in DOMAIN last.env
  /\ last.env[1] = 2
  /\ last.res = Val(4)

\* An expression made of constants, variables, sums, products and powers.
RECURSIVE Polynomial(_)
Polynomial(e) ==
  CASE e.kind \in {"Constant", "Var"} -> TRUE
    [] e.kind \in {"Add", "Mul"} ->
         \A i \in 1..Len(e.map) :
           /\ Polynomial(e.map[i][1])
           /\ (e.kind = "Mul" => Polynomial(e.map[i][2]))
    [] e.kind = "Pow" -> Polynomial(e.e1) /\ Polynomial(e.e2)
    [] OTHER -> FALSE

\* C4: expand() succeeds on an expression made of constants, variables, +, -,
\* * and pow, and the expansion evaluates to what the expression evaluates
\* to in every environment in which the expression evaluates.
C4_ExpandPreservesEvaluation ==
  (last.op = "expand" /\ Polynomial(last.lhs)) =>
    /\ Built
    /\ \A env \in TotalEnvs :
         ~IsErr(evaluate(last.lhs, env)) =>
           evaluate(last.res, env) = evaluate(last.lhs, env)

\* (x1 + x2) * 2 has been expanded and the expansion raised.
C4_ExpandOfScaledSumRaises ==
  /\ last.op = "expand"
  /\ last.lhs = Mul(2, << <<Add(0, << <<Var(1), 1>>, <<Var(2), 1>> >>), one>> >>)
  /\ last.res = Raise("unreachable")

\* C5: where expand() succeeds, expanding the expansion succeeds and yields
\* an expression equal_to the expansion.
C5_ExpandIdempotent ==
  (last.op = "expand" /\ Built) =>
    /\ ~IsErr(expand(last.res))
    /\ equal_to(expand(last.res), last.res)

\* C6: e + 0 and 0 + e are equal_to e, for the expression 0 and for the
\* scalar 0, whatever non-NaN e is.
C6_AdditiveIdentity ==
  /\ (/\ Called("+", {"compound", "binary", "compoundT"})
      /\ is_constant_v(last.rhs, 0)
      /\ ~is_nan(last.lhs)) =>
       (Built /\ equal_to(last.res, last.lhs))
  /\ (/\ Called("+", {"compound", "binary", "scalar_left"})
      /\ is_constant_v(last.lhs, 0)
      /\ ~is_nan(last.rhs)) =>
       (Built /\ equal_to(last.res, last.rhs))

\* (x1 * x2) + T(0) has been computed and is the constant 0.
C6_ProductPlusScalarZero ==
  /\ Called("+", {"compoundT"})
  /\ last.lhs = Mul(1, << <<Var(1), one>>, <<Var(2), one>> >>)
  /\ last.rhs = zero
  /\ last.res = zero

\* -1 * (x1^0) has been expanded to -1 * x1^0 with the zero exponent kept in
\* the map, which expands to the constant -1.
C5_ZeroExponentExpandsAgain ==
  /\ last.op = "expand"
  /\ last.lhs = Mul(0 - 1, << <<Pow(Var(1), zero), one>> >>)
  /\ last.res = Mul(0 - 1, << <<Var(1), zero>> >>)
  /\ expand(last.res) = Constant(0 - 1)

\* The calls whose right operand, and the calls whose left operand, may be an
\* expression or a scalar.
RightForms == {"compound", "binary", "compoundT"}
LeftForms == {"compound", "binary", "scalar_left"}

Folded(op, c1, c2) ==
  CASE op = "+" -> c1 + c2
    [] op = "-" -> c1 - c2
    [] op = "*" -> c1 * c2
    [] op = "/" -> TruncDiv(c1, c2)

\* C8: for constants c1 and c2 and op one of +, -, *, / (c2 # 0 for /),
\* Expression(c1) op Expression(c2) is the constant c1 op c2, where the call
\* writes into the uniquely owned cell and where it allocates.
C8_ConstantFolding ==
  (/\ last.op \in {"+", "-", "*", "/"}
   /\ last.form \in ExprForms
   /\ is_constant(last.lhs) /\ is_constant(last.rhs)
   /\ (last.op = "/" => ~is_constant_v(last.rhs, 0))) =>
    /\ Built
    /\ is_constant(last.res)
    /\ last.res.value = Folded(last.op, last.lhs.value, last.rhs.value)
    /\ (last.path # "dropped" => val("a") = last.res)

\* A quotient of two constants has been written into the uniquely owned cell
\* of the left operand.
C8_QuotientFoldedInPlace ==
  /\ Called("/", {"compound"})
  /\ last.path = "inplace"
  /\ last.lhs = Constant(0 - 1)
  /\ last.rhs = Constant(2)
  /\ val("a") = Constant(0)
  /\ reg["a"] \notin Singletons

\* C9: e / Expression(0) and e / T(0) are NaN for every e, the constant 0
\* included, and evaluating the result fails in every environment.
C9_DivisionByZeroIsNaN ==
  (Called("/", RightForms) /\ is_constant_v(last.rhs, 0)) =>
    /\ is_nan(last.res)
    /\ \A env \in Envs : IsErr(evaluate(last.res, env))

\* The constant 0 has been divided by the scalar 0 and handle a holds NaN.
C9_ZeroOverScalarZero ==
  /\ Called("/", {"compoundT"})
  /\ last.lhs = zero
  /\ last.rhs = zero
  /\ val("a") = NaNCell

\* The expressions in sight: the values of the handles and the operands and
\* the value of the call made last.
InSight ==
  {val(r) : r \in Regs}
    \cup (IF "form" \in DOMAIN last
          THEN {last.lhs, last.rhs} \cup (IF Built THEN {last.res} ELSE {})
          ELSE {})

\* C10: equal_to is reflexive, symmetric and transitive, and expressions of
\* different kinds are never equal.
C10_EqualToIsEquivalence ==
  \A x, y \in InSight :
    /\ equal_to(x, x)
    /\ equal_to(x, y) => equal_to(y, x)
    /\ x.kind # y.kind => ~equal_to(x, y)
    /\ \A z \in InSight : (equal_to(x, y) /\ equal_to(y, z)) => equal_to(x, z)

\* Two products in sight are equal and a third differs from them.
C10_EqualAndUnequalProducts ==
  \E x, y, z \in InSight :
    /\ is_multiplication(x) /\ is_multiplication(z)
    /\ equal_to(x, y) /\ equal_to(y, x)
    /\ ~equal_to(x, z)

\* C11: two handles of kind NaN are never equal_to each other, a handle
\* compared with itself and two handles obtained from Expression::NaN()
\* included.
C11_NaNNeverEqual ==
  \A r, s \in Regs :
    (is_nan(val(r)) /\ is_nan(val(s))) => ~equal_to(val(r), val(s))

\* Both handles hold the cell of Expression::NaN() and are equal_to each
\* other.
C11_NaNHandlesShareTheCell ==
  /\ reg["a"] = NaNAddr
  /\ reg["b"] = NaNAddr
  /\ equal_to(val("a"), val("b"))

\* The non-NaN expressions in sight.
Ordered == {e \in InSight : ~is_nan(e)}

\* C12: on non-NaN expressions less is irreflexive, asymmetric and
\* transitive, and exactly one of a.less(b), b.less(a), a.equal_to(b) holds.
C12_LessIsStrictTotalOrder ==
  \A x, y \in Ordered :
    /\ ~less(x, x)
    /\ ~(less(x, y) /\ less(y, x))
    /\ less(x, y) \/ less(y, x) \/ equal_to(x, y)
    /\ equal_to(x, y) => ~less(x, y)
    /\ \A z \in Ordered : (less(x, y) /\ less(y, z)) => less(x, z)

\* 1 - x2 and 1 + x1 - x2 are in sight and each is less than the other.
C12_SumsLessBothWays ==
  /\ last.op = "+"
  /\ last.rhs = Add(1, << <<Var(2), 0 - 1>> >>)
  /\ last.res = Add(1, << <<Var(1), 1>>, <<Var(2), 0 - 1>> >>)
  /\ less(last.rhs, last.res)
  /\ less(last.res, last.rhs)

\* =================================================================== queries
\* variables(), is_polynomial(), substitute, differentiate and
\* evaluate_partial.  The caches variables_ and is_polynomial_ of a cell are
\* filled on the first call and reset by every write through m_value(),
\* m_constant() and the map accessors, so a call returns what the compute_
\* function of the cell returns.
RECURSIVE variables(_), is_polynomial(_)

\* ExpressionCell::variables -> compute_variables of each kind.
variables(e) ==
  CASE e.kind = "Constant" -> {}
    [] e.kind = "Var" -> {e.var}
    [] e.kind = "NaN" -> {}
    [] e.kind \in {"Add", "Mul"} -> UNION {variables(e.map[i][1]) : i \in 1..Len(e.map)}
    [] e.kind \in {"Pow", "Div"} -> variables(e.e1) \cup variables(e.e2)

\* ExpressionCell::is_polynomial: the value the constructor stores
\* (Constant, Var, NaN) or compute_is_polynomial of the kind.
is_polynomial(e) ==
  CASE e.kind \in {"Constant", "Var"} -> TRUE
    [] e.kind = "NaN" -> FALSE
    [] e.kind = "Add" -> \A i \in 1..Len(e.map) : is_polynomial(e.map[i][1])
    [] e.kind = "Mul" ->
         \A i \in 1..Len(e.map) :
           IF ~is_polynomial(e.map[i][1]) \/ ~is_constant(e.map[i][2]) THEN FALSE
           ELSE constant(e.map[i][2]) >= 0 /\ is_integer(constant(e.map[i][2]))
    [] e.kind = "Pow" ->
         IF ~(is_polynomial(e.e1) /\ is_constant(e.e2)) THEN FALSE
         ELSE constant(e.e2) >= 0 /\ is_integer(constant(e.e2))
    [] e.kind = "Div" -> is_polynomial(e.e1) /\ is_polynomial(e.e2)

\* r.variables().
VariablesOf(r) ==
  /\ Ready
  /\ UNCHANGED <<reg, heap, map_, pc>>
  /\ last' = [op |-> "variables", lhs |-> val(r), res |-> variables(val(r))]

\* r.is_polynomial().
IsPolynomial(r) ==
  /\ Ready
  /\ UNCHANGED <<reg, heap, map_, pc>>
  /\ last' = [op |-> "is_polynomial", lhs |-> val(r), res |-> is_polynomial(val(r))]

\* ---------------------------------------- substitute, differentiate, partial
\* substitute(s), evaluate_partial(env) and differentiate(x) walk a cell the
\* same way; f says which of the three is running and carries its argument:
\* [fn |-> "substitute", s |-> a function from variables to expressions],
\* [fn |-> "evaluate_partial", env |-> an environment] or
\* [fn |-> "differentiate", x |-> a variable].
RECURSIVE cell_walk(_, _)

\* ExpressionAdd::substitute / evaluate_partial / differentiate:
\* result += Expression{expr}.fn(arg) * coeff over the terms.
RECURSIVE AddWalk(_, _, _, _)
AddWalk(m, i, result, f) ==
  IF IsErr(result) \/ i > Len(m) THEN result
  ELSE AddWalk(m, i + 1,
         AddAssignE(result, MulAssignT(cell_walk(m[i][1], f), m[i][2])), f)

\* ExpressionMul::substitute / evaluate_partial: std::accumulate of
\* init * (base.fn(arg) ^ exponent.fn(arg)).
RECURSIVE MulWalk(_, _, _, _)
MulWalk(m, i, init, f) ==
  IF IsErr(init) \/ i > Len(m) THEN init
  ELSE MulWalk(m, i + 1,
         MulAssignE(init, PowAssign(cell_walk(m[i][1], f), cell_walk(m[i][2], f))), f)

\* ExpressionCell::substitute / evaluate_partial / differentiate of each kind.
\* ExpressionPow::substitute returns the cell itself unless an argument
\* changed; ExpressionDiv::differentiate is (f' * g - f * g') / (g ^ 2).
cell_walk(e, f) ==
  CASE e.kind = "Constant" -> IF f.fn = "differentiate" THEN zero ELSE e
    [] e.kind = "Var" ->
         IF f.fn = "substitute" THEN (IF e.var \in DOMAIN f.s THEN f.s[e.var] ELSE e)
         ELSE IF f.fn = "evaluate_partial"
         THEN (IF e.var \in DOMAIN f.env THEN ExpressionT(f.env[e.var]) ELSE e)
         ELSE (IF e.var = f.x THEN one ELSE zero)
    [] e.kind = "NaN" -> Raise("runtime_error")
    [] e.kind = "Add" ->
         AddWalk(e.map, 1,
                 ExpressionT(IF f.fn = "differentiate" THEN 0 ELSE e.constant), f)
    [] e.kind = "Mul" ->
         IF f.fn = "differentiate" THEN Raise("not_implemented")
         ELSE MulWalk(e.map, 1, ExpressionT(e.constant), f)
    [] e.kind = "Pow" ->
         LET arg1 == cell_walk(e.e1, f)
             arg2 == cell_walk(e.e2, f)
         IN IF f.fn = "differentiate" THEN Raise("not_implemented")
            ELSE IF f.fn = "evaluate_partial" THEN PowAssign(arg1, arg2)
            ELSE IF IsErr(arg1) THEN arg1
            ELSE IF IsErr(arg2) THEN arg2
            ELSE IF ~equal_to(e.e1, arg1) \/ ~equal_to(e.e2, arg2)
            THEN PowAssign(arg1, arg2)
            ELSE e
    [] e.kind = "Div" ->
         LET d1 == cell_walk(e.e1, f)
             d2 == cell_walk(e.e2, f)
         IN IF f.fn = "differentiate"
            THEN DivAssignE(SubAssignE(MulAssignE(d1, e.e2), MulAssignE(e.e1, d2)),
                            PowAssign(e.e2, ExpressionT(2)))
            ELSE DivAssignE(d1, d2)

\* Expression::substitute(const Substitution&).
substitute(e, s) == cell_walk(e, [fn |-> "substitute", s |-> s])
\* Expression::evaluate_partial(const Environment&).
evaluate_partial(e, env) == cell_walk(e, [fn |-> "evaluate_partial", env |-> env])
\* Expression::differentiate(const Variable&).
differentiate(e, x) == cell_walk(e, [fn |-> "differentiate", x |-> x])

\* The substitutions tried: a variable is replaced by a variable or by the
\* constant MaxConst.
Substitutions ==
  UNION {[S -> {Var(id) : id \in VarIds} \cup {ExpressionT(MaxConst)}] : S \in SUBSET VarIds}

\* r = s.substitute(sub), r = s.evaluate_partial(env), r = s.differentiate(x).
Substitute(r, s, sub, n) ==
  /\ Ready
  /\ Finish(r, "substitute", "walk", val(s), sub, substitute(val(s), sub),
            "fresh", reg[s], NoAddr, n, TRUE)
EvaluatePartial(r, s, env, n) ==
  /\ Ready
  /\ Finish(r, "evaluate_partial", "walk", val(s), env, evaluate_partial(val(s), env),
            "fresh", reg[s], NoAddr, n, TRUE)
Differentiate(r, s, x, n) ==
  /\ Ready
  /\ Finish(r, "differentiate", "walk", val(s), x, differentiate(val(s), x),
            "fresh", reg[s], NoAddr, n, TRUE)

\* Queries: b is given a constant, a variable or NaN, a holds expressions of
\* up to MaxQuerySize leaves made from it, and a is asked.
NextQuery ==
  \/ \E c \in Scalars : Construct("b", c)
  \/ \E id \in VarIds : ConstructVar("b", id)
  \/ ConstructNaN("b")
  \/ Copy("a", "b", MaxQuerySize)
  \/ \E op \in Ops : CompoundAssign("a", "b", op, MaxQuerySize)
  \/ \E op \in Ops : Binary("a", "b", "a", op, MaxQuerySize)
  \/ VariablesOf("a")
  \/ IsPolynomial("a")
  \/ \E env \in Envs : Evaluate("a", env)
  \/ Expand("a", "a", MaxQuerySize)
  \/ \E sub \in Substitutions : Substitute("a", "a", sub, MaxQuerySize)
  \/ \E env \in Envs : EvaluatePartial("a", "a", env, MaxQuerySize)
  \/ \E x \in VarIds : Differentiate("a", "a", x, MaxQuerySize)

SpecQuery == Init /\ [][NextQuery]_vars

\* The variables occurring anywhere in an expression, the exponents of a
\* product included.
RECURSIVE Occurring(_)
Occurring(e) ==
  CASE e.kind = "Var" -> {e.var}
    [] e.kind = "Add" -> UNION {Occurring(e.map[i][1]) : i \in 1..Len(e.map)}
    [] e.kind = "Mul" ->
         UNION {Occurring(e.map[i][1]) \cup Occurring(e.map[i][2]) : i \in 1..Len(e.map)}
    [] e.kind \in {"Pow", "Div"} -> Occurring(e.e1) \cup Occurring(e.e2)
    [] OTHER -> {}

\* C13: variables() returns exactly the variables occurring anywhere in the
\* expression, the bases and the exponents of a Mul included.
C13_VariablesAreThoseOccurring ==
  last.op = "variables" => last.res = Occurring(last.lhs)

\* A kind in the recursive definition of polynomial: the exponent of a factor
\* or a power is a non-negative integer constant.
RECURSIVE PolynomialByDefinition(_)
NaturalExponent(x) == is_constant(x) /\ x.value >= 0
PolynomialByDefinition(e) ==
  CASE e.kind \in {"Constant", "Var"} -> TRUE
    [] e.kind = "Add" -> \A i \in 1..Len(e.map) : PolynomialByDefinition(e.map[i][1])
    [] e.kind = "Mul" ->
         \A i \in 1..Len(e.map) :
           PolynomialByDefinition(e.map[i][1]) /\ NaturalExponent(e.map[i][2])
    [] e.kind = "Pow" -> PolynomialByDefinition(e.e1) /\ NaturalExponent(e.e2)
    [] OTHER -> FALSE

\* C14: is_polynomial() follows the recursive definition, is false for every
\* Div and raises on NaN.
C14_IsPolynomialByDefinition ==
  last.op = "is_polynomial" =>
    IF is_nan(last.lhs) THEN last.res \notin BOOLEAN
    ELSE last.res = PolynomialByDefinition(last.lhs)

\* variables() of 2 * x1^x2 has been asked and the answer is {x1}.
C13_ExponentVariableMissing ==
  /\ last.op = "variables"
  /\ last.lhs = Mul(2, << <<Var(1), Var(2)>> >>)
  /\ last.res = {1}

\* is_polynomial() of 1 / x2 has been asked and the answer is TRUE.
C14_QuotientIsPolynomial ==
  /\ last.op = "is_polynomial"
  /\ last.lhs = Div(one, Var(2))
  /\ last.res = TRUE

\* An expression with no NaN cell in it.
RECURSIVE NaNFree(_)
NaNFree(e) ==
  CASE e.kind = "NaN" -> FALSE
    [] e.kind = "Add" -> \A i \in 1..Len(e.map) : NaNFree(e.map[i][1])
    [] e.kind = "Mul" -> \A i \in 1..Len(e.map) : NaNFree(e.map[i][1]) /\ NaNFree(e.map[i][2])
    [] e.kind \in {"Pow", "Div"} -> NaNFree(e.e1) /\ NaNFree(e.e2)
    [] OTHER -> TRUE

\* C15: evaluating a non-NaN expression in an environment that leaves one of
\* its variables unbound fails with the lookup error of Environment::at.
C15_UnboundVariableReported ==
  (/\ last.op = "evaluate"
   /\ NaNFree(last.lhs)
   /\ \E v \in Occurring(last.lhs) : v \notin DOMAIN last.env) =>
    last.res = Raise("out_of_range")

\* -1 * x1^0 has been evaluated in the empty environment and the result is
\* the value -1.
C15_ZeroExponentSkipsLookup ==
  /\ last.op = "evaluate"
  /\ last.lhs = Mul(0 - 1, << <<Var(1), zero>> >>)
  /\ DOMAIN last.env = {}
  /\ last.res = Val(0 - 1)

\* The call made last threw an exception.
Raised == IsErr(last.res) /\ last.res # Undefined /\ last.res # StackOverflow

\* C16: evaluate, expand, evaluate_partial, substitute and differentiate of
\* the NaN expression raise for every argument, and evaluate, expand,
\* substitute and differentiate of an expression that contains NaN raise too.
C16_NaNOperationsFail ==
  /\ (last.op \in {"evaluate", "expand", "evaluate_partial", "substitute", "differentiate"}
      /\ is_nan(last.lhs)) => Raised
  /\ (last.op \in {"evaluate", "expand", "substitute", "differentiate"}
      /\ ~NaNFree(last.lhs)) => Raised

\* Expressions around NaN: b is given a constant or NaN, a holds expressions
\* of up to MaxNaNSize leaves made from it, and a is evaluated, expanded,
\* substituted into and differentiated.
NextNaN ==
  \/ \E c \in Scalars : Construct("b", c)
  \/ ConstructNaN("b")
  \/ Copy("a", "b", MaxNaNSize)
  \/ \E op \in Ops : CompoundAssign("a", "b", op, MaxNaNSize)
  \/ \E env \in Envs : Evaluate("a", env)
  \/ Expand("a", "a", MaxNaNSize)
  \/ \E sub \in Substitutions : Substitute("a", "a", sub, MaxNaNSize)
  \/ \E env \in Envs : EvaluatePartial("a", "a", env, MaxNaNSize)
  \/ \E x \in VarIds : Differentiate("a", "a", x, MaxNaNSize)

SpecNaN == Init /\ [][NextNaN]_vars

\* -1 * NaN^0 has been evaluated and the result is the value -1.
C16_NaNBaseSkipped ==
  /\ last.op = "evaluate"
  /\ last.lhs = Mul(0 - 1, << <<NaNCell, zero>> >>)
  /\ last.res = Val(0 - 1)

\* -------------------------------------------------------------- environment
\* The Environment object of the driver (environment.h): map_ is its
\* std::unordered_map from Variable to T, here a function from the ids of the
\* keys.  Id 0 is the id of the default-constructed Variable, the dummy.
is_dummy(key) == key = 0

\* domain(): the keys of map_.
domain == DOMAIN map_

\* Environment(map m), the constructor every other constructor delegates to,
\* assigned to the object: a constructor that throws leaves the object alone.
Environment(m) ==
  IF \E key \in DOMAIN m : is_dummy(key) THEN
    /\ UNCHANGED <<reg, heap, map_, pc>>
    /\ last' = [op |-> "Environment", before |-> map_, key |-> 0,
                res |-> Raise("runtime_error")]
  ELSE
    /\ UNCHANGED <<reg, heap, pc>>
    /\ map_' = m
    /\ last' = [op |-> "Environment", before |-> map_, key |-> 1, res |-> Val(0)]

\* insert(key, elem): std::unordered_map::emplace keeps an element that is
\* already there.
insert(key, elem) ==
  IF is_dummy(key) THEN
    /\ UNCHANGED <<reg, heap, map_, pc>>
    /\ last' = [op |-> "insert", before |-> map_, key |-> key,
                res |-> Raise("runtime_error")]
  ELSE
    /\ UNCHANGED <<reg, heap, pc>>
    /\ map_' = IF key \in DOMAIN map_ THEN map_
               ELSE [k \in DOMAIN map_ \cup {key} |->
                       IF k = key THEN elem ELSE map_[k]]
    /\ last' = [op |-> "insert", before |-> map_, key |-> key, res |-> Val(elem)]

\* insert_or_assign(key, elem).
insert_or_assign(key, elem) ==
  IF is_dummy(key) THEN
    /\ UNCHANGED <<reg, heap, map_, pc>>
    /\ last' = [op |-> "insert_or_assign", before |-> map_, key |-> key,
                res |-> Raise("runtime_error")]
  ELSE
    /\ UNCHANGED <<reg, heap, pc>>
    /\ map_' = [k \in DOMAIN map_ \cup {key} |->
                  IF k = key THEN elem ELSE map_[k]]
    /\ last' = [op |-> "insert_or_assign", before |-> map_, key |-> key,
                res |-> Val(elem)]

\* The non-const operator[](key): std::unordered_map::operator[] inserts a
\* value-initialised T for a key that is not there and returns a reference
\* to the mapped value.
subscript(key) ==
  /\ UNCHANGED <<reg, heap, pc>>
  /\ map_' = [k \in DOMAIN map_ \cup {key} |->
                IF k \in DOMAIN map_ THEN map_[k] ELSE 0]
  /\ last' = [op |-> "operator[]", before |-> map_, key |-> key,
              res |-> Val(map_'[key])]

\* An environment over the variables and the dummy, driven through its
\* constructor, insert, insert_or_assign and operator[].
NextEnv ==
  \/ \E S \in SUBSET (0..NumVars) : \E m \in [S -> EnvValues] : Environment(m)
  \/ \E key \in 0..NumVars, elem \in EnvValues : insert(key, elem)
  \/ \E key \in 0..NumVars, elem \in EnvValues : insert_or_assign(key, elem)
  \/ \E key \in 0..NumVars : subscript(key)
SpecEnv == Init /\ [][NextEnv]_vars

\* C17: no Environment ever holds the dummy variable as a key: after any
\* sequence of constructor, insert, insert_or_assign and operator[] calls
\* domain() contains no dummy variable, and each of these operations called
\* with a dummy variable fails and leaves the environment unchanged.
C17_NoDummyInEnvironment ==
  /\ \A key \in domain : ~is_dummy(key)
  /\ (last.op \in {"Environment", "insert", "insert_or_assign", "operator[]"}
      /\ is_dummy(last.key))
       => (IsErr(last.res) /\ map_ = last.before)

\* operator[] called with the dummy variable on an environment that binds x1
\* returned a reference to a new element: the dummy is in domain().
C17_SubscriptInsertsDummy ==
  /\ last.op = "operator[]"
  /\ is_dummy(last.key)
  /\ last.before = (1 :> MaxConst)
  /\ last.res = Val(0)
  /\ domain = {0, 1}

\* The environment that maps each v in dom(s) to s[v].evaluate(env) and every
\* other variable to env[v].
SubstitutedEnv(s, env) ==
  [v \in DOMAIN s \cup DOMAIN env |->
     IF v \in DOMAIN s THEN evaluate(s[v], env).v ELSE env[v]]

\* C18: substitute(s) is simultaneous: for every non-NaN expression e,
\* substitution s and environment env under which the replacements and e
\* have a value, e.substitute(s) succeeds and evaluates under env to the
\* value of e under the environment that maps each v in dom(s) to
\* s[v].evaluate(env) and every other variable to env[v].
C18_SubstituteIsSimultaneous ==
  (last.op = "substitute" /\ last.lhs.kind # "NaN") =>
    \A env \in Envs :
      ((\A v \in DOMAIN last.rhs : ~IsErr(evaluate(last.rhs[v], env)))
       /\ ~IsErr(evaluate(last.lhs, SubstitutedEnv(last.rhs, env))))
        => /\ ~IsErr(last.res)
           /\ evaluate(last.res, env)
                = evaluate(last.lhs, SubstitutedEnv(last.rhs, env))

\* (x1 * x2).substitute({x1 -> x2}) raised: the product x2 * x2 of the
\* substituted factors is not built.
C18_ProductSubstitutionRaises ==
  /\ last.op = "substitute"
  /\ last.lhs = Mul(1, << <<Var(1), one>>, <<Var(2), one>> >>)
  /\ last.rhs = (1 :> Var(2))
  /\ last.res = Raise("unreachable")

\* e is of one of the kinds, or one of them occurs in it.
RECURSIVE Encloses(_, _)
Encloses(e, kinds) ==
  \/ e.kind \in kinds
  \/ e.kind = "Add" /\ \E i \in 1..Len(e.map) : Encloses(e.map[i][1], kinds)
  \/ e.kind = "Mul" /\ \E i \in 1..Len(e.map) :
                         Encloses(e.map[i][1], kinds) \/ Encloses(e.map[i][2], kinds)
  \/ e.kind \in {"Pow", "Div"} /\ (Encloses(e.e1, kinds) \/ Encloses(e.e2, kinds))

\* C19: differentiate(x) on any Mul or Pow expression and expand() on any Div
\* expression raise a not-implemented error and never return an expression,
\* and the error propagates unchanged out of differentiate and expand of any
\* enclosing Add, Mul, Pow or Div.
C19_UnimplementedFailsLoudly ==
  /\ (last.op = "differentiate" /\ Encloses(last.lhs, {"Mul", "Pow"}))
       => last.res = Raise("not_implemented")
  /\ (last.op = "expand" /\ Encloses(last.lhs, {"Div"}))
       => last.res = Raise("not_implemented")

\* (1 / NaN).expand() raised the error of expanding the NaN child, not the
\* not-implemented error of the Div cell.
C19_ChildErrorComesFirst ==
  /\ last.op = "expand"
  /\ last.lhs = Div(one, NaNCell)
  /\ last.res = Raise("runtime_error")

\* C20: self-subtraction cancels: for every non-NaN expression E of any kind
\* E - E is built without raising and is structurally equal to the
\* constant 0.
C20_SelfSubtractionCancels ==
  (/\ last.op = "-"
   /\ last.form \in {"compound", "binary"}
   /\ last.lhs = last.rhs
   /\ last.lhs.kind # "NaN")
    => (~IsErr(last.res) /\ equal_to(last.res, zero))

\* x1 - x1 was built as the sum 0 + x1 + (-1 * x1) of two terms.
C20_VariableMinusItself ==
  /\ last.op = "-"
  /\ last.form = "binary"
  /\ last.lhs = Var(1)
  /\ last.rhs = Var(1)
  /\ last.res = Add(0, << <<Var(1), 1>>, <<Mul(0 - 1, << <<Var(1), one>> >>), 1>> >>)

\* C21: singleton discipline: Expression(0) refers to the cell of
\* Expression::zero() and Expression(1) to the cell of Expression::one(), so
\* that a handle made from 0 or 1 has a use_count of at least 2 while a handle
\* made from another scalar has a use_count of 1, and after every operation
\* the zero cell still holds 0 and the one cell still holds 1.
C21_SingletonDiscipline ==
  /\ [](heap[ZeroAddr] = zero /\ heap[OneAddr] = one)
  /\ [][\A c \in Scalars : Construct("b", c) =>
          /\ (c = 0) = (reg'["b"] = ZeroAddr)
          /\ (c = 1) = (reg'["b"] = OneAddr)
          /\ (c \in {0, 1}) => use_count(reg["b"])' >= 2
          /\ (c \notin {0, 1}) => use_count(reg["b"])' = 1]_vars

\* A constant cell that only handle a owns was written in place and now
\* holds 0: it is not the cell of Expression::zero().
C21_OwnCellHoldsZero ==
  /\ last.op \in Ops
  /\ last.path = "inplace"
  /\ last.res = zero
  /\ reg["a"] # ZeroAddr
  /\ use_count(reg["a"]) = 1
  /\ heap[ZeroAddr] = zero

\* The last call built one of the forms -x, c * x, x + y, c * x * y,
\* pow(x, 2) * y, c + x + y, c0 + c1 * x - c2 * y from variables and scalars.
BuiltExpandedForm ==
  /\ "form" \in DOMAIN last
  /\ last.form \in {"compound", "compoundT", "binary", "scalar_left", "unary"}
  /\ \/ last.op = "neg" /\ last.lhs.kind = "Var"
     \/ last.op = "*" /\ {last.lhs.kind, last.rhs.kind} = {"Var", "Constant"}
     \/ /\ last.rhs.kind = "Var"
        /\ \E x \in VarIds \ {last.rhs.var} :
             \/ last.op = "+" /\ last.lhs = Var(x)
             \/ last.op = "*" /\ \E c \in Scalars : last.lhs = MulAssignT(Var(x), c)
             \/ last.op = "*" /\ last.lhs = PowAssign(Var(x), ExpressionT(2))
             \/ last.op = "+" /\ \E c \in Scalars : last.lhs = AddAssignT(Var(x), c)
     \/ /\ last.op = "-"
        /\ \E x, y \in VarIds, c0, c1, c2 \in Scalars :
             /\ x # y
             /\ last.lhs = AddAssignT(MulAssignT(Var(x), c1), c0)
             /\ last.rhs = MulAssignT(Var(y), c2)

\* C23: an expression built with the operators as a constant, a variable,
\* -x, c * x, x + y, c * x * y, pow(x, 2) * y, c + x + y or c0 + c1 * x - c2 * y
\* reports is_expanded() and is equal_to its expansion.
C23_ExpandedFormsReportIt ==
  /\ \A r \in Regs : val(r).kind \in {"Constant", "Var"} =>
       is_expanded(val(r)) /\ equal_to(val(r), expand(val(r)))
  /\ (BuiltExpandedForm /\ ~IsErr(last.res)) =>
       is_expanded(last.res) /\ equal_to(last.res, expand(last.res))

\* -x1 was built as the Mul cell -1 * x1, which does not report is_expanded().
C23_NegatedVariableNotExpanded ==
  /\ last.op = "neg"
  /\ last.lhs = Var(1)
  /\ last.res = Mul(0 - 1, << <<Var(1), one>> >>)
  /\ ~is_expanded(last.res)

\* The n-fold product e * ... * e built with operator*.
RECURSIVE RepeatedProduct(_, _)
RepeatedProduct(e, n) ==
  IF n = 1 THEN e ELSE MulAssignE(RepeatedProduct(e, n - 1), e)

\* C24: for variables x, y and 1 <= n <= 4, expanding pow(x + y, n) succeeds,
\* the result is structurally equal to the expansion of the n-fold product
\* (x + y) * ... * (x + y), and it evaluates to (x + y)^n in every environment
\* binding x and y.
C24_FastPowerIsCorrect ==
  \A x, y \in VarIds, n \in 1..4 :
    (/\ x # y
     /\ last.op = "expand"
     /\ last.lhs = PowAssign(AddAssignE(Var(x), Var(y)), ExpressionT(n)))
      => /\ ~IsErr(last.res)
         /\ ~IsErr(expand(RepeatedProduct(AddAssignE(Var(x), Var(y)), n)))
         /\ equal_to(last.res, expand(RepeatedProduct(AddAssignE(Var(x), Var(y)), n)))
         /\ \A env \in [{x, y} -> EnvValues] :
              evaluate(last.res, env) = Val(NatPow(env[x] + env[y], n))

\* pow(x1 + x2, 2).expand() raised.
C24_SquareOfSumRaises ==
  /\ last.op = "expand"
  /\ last.lhs = Pow(Add(0, << <<Var(1), 1>>, <<Var(2), 1>> >>), ExpressionT(2))
  /\ IsErr(last.res)

\* No Add cell in e maps a term to the coefficient 0 and no Mul cell in e
\* maps a base to the constant exponent 0.
RECURSIVE Canonical(_)
Canonical(e) ==
  CASE e.kind = "Add" ->
         \A i \in 1..Len(e.map) : e.map[i][2] # 0 /\ Canonical(e.map[i][1])
    [] e.kind = "Mul" ->
         \A i \in 1..Len(e.map) :
           e.map[i][2] # zero /\ Canonical(e.map[i][1]) /\ Canonical(e.map[i][2])
    [] e.kind \in {"Pow", "Div"} -> Canonical(e.e1) /\ Canonical(e.e2)
    [] OTHER -> TRUE

\* C25: after any sequence of operator applications starting from constants
\* and variables, no reachable Add cell maps a term to the coefficient 0 and
\* no reachable Mul cell maps a base to the constant exponent 0: a key whose
\* coefficients or exponents cancel in a merge is dropped from the result.
C25_CanonicalForm ==
  /\ \A r \in Regs : Canonical(val(r))
  /\ ("form" \in DOMAIN last /\ ~IsErr(last.res)) => Canonical(last.res)

\* x1 - (x1 + 1) was built as the Add cell -1 + 0 * x1.
C25_CancelledTermKept ==
  /\ last.op = "-"
  /\ last.lhs = Var(1)
  /\ last.rhs = Add(1, << <<Var(1), 1>> >>)
  /\ last.res = Add(0 - 1, << <<Var(1), 0>> >>)

\* C26: for every expression b and constants e1, e2, pow(pow(b, e1), e2) is
\* built without raising, and for integer e1 and e2 with e2 neither 0 nor 1
\* the result is the Pow cell pow(b, e1 * e2).
C26_PowerOfPowerFolds ==
  (/\ last.op = "^"
   /\ last.lhs.kind = "Pow"
   /\ last.lhs.e2.kind = "Constant"
   /\ last.rhs.kind = "Constant")
    => /\ ~IsErr(last.res)
       /\ last.rhs.value \notin {0, 1} =>
            last.res = Pow(last.lhs.e1, ExpressionT(last.lhs.e2.value * last.rhs.value))

\* pow(pow(x1, 2), 2) raised.
C26_SquareOfSquareRaises ==
  /\ last.op = "^"
  /\ last.lhs = Pow(Var(1), ExpressionT(2))
  /\ last.rhs = ExpressionT(2)
  /\ last.res = Raise("unreachable")

\* C27: for every expression E that is neither a constant nor a
\* multiplication, E * E is built without raising and is pow(E, 2).
C27_SquaringSimplification ==
  (/\ last.op = "*"
   /\ last.form \in {"compound", "binary"}
   /\ last.lhs = last.rhs
   /\ last.lhs.kind \notin {"Constant", "Mul", "NaN"})
    => last.res = Pow(last.lhs, ExpressionT(2))

\* x1 * x1 raised.
C27_VariableTimesItselfRaises ==
  /\ last.op = "*"
  /\ last.lhs = Var(1)
  /\ last.rhs = Var(1)
  /\ last.res = Raise("unreachable")

RECURSIVE WellFormed(_)
WellFormed(e) ==
  CASE e.kind \in {"Constant", "Var", "NaN"} -> TRUE
    [] e.kind = "Add" -> \A i \in 1..Len(e.map) : WellFormed(e.map[i][1])
    [] e.kind = "Mul" ->
         \A i \in 1..Len(e.map) : WellFormed(e.map[i][1]) /\ WellFormed(e.map[i][2])
    [] e.kind \in {"Pow", "Div"} -> WellFormed(e.e1) /\ WellFormed(e.e2)
    [] OTHER -> FALSE

use_count_test(o) ==
  /\ pc.pos = "idle"
  /\ is_constant(val("a"))
  /\ ~is_constant_v(val("a"), 0)
  /\ Small(constant(val("a")) + o)
  /\ IF use_count(reg["a"]) = 1 THEN
       /\ pc' = [pos |-> "tested", o |-> o]
       /\ UNCHANGED <<reg, heap, last, map_>>
     ELSE
       /\ Commit("a", Fresh("a", ExpressionT(constant(val("a")) + o)),
                 ExpressionT(constant(val("a")) + o))
       /\ last' = Record("+", "compoundT", val("a"), ExpressionT(o),
                         ExpressionT(constant(val("a")) + o), "fresh")
       /\ UNCHANGED pc

\* m_cell(): SMATS_ASSERT(cell_.use_count() == 1), then the reference to the
\* cell.
m_cell ==
  /\ pc.pos = "tested"
  /\ IF use_count(reg["a"]) = 1 THEN
       /\ pc' = [pc EXCEPT !.pos = "owned"]
       /\ UNCHANGED <<reg, heap, last, map_>>
     ELSE
       /\ pc' = [pos |-> "idle", o |-> 0]
       /\ last' = Record("+", "compoundT", val("a"), ExpressionT(pc.o),
                         Raise("assertion"), "raise")
       /\ UNCHANGED <<reg, heap, map_>>

\* The write to the cell after the copy of the handle has been taken away
\* from it: the sum goes to a cell of its own.
m_value_detached ==
  /\ pc.pos = "owned"
  /\ Commit("a", NewAddr("a"), ExpressionT(constant(val("a")) + pc.o))
  /\ pc' = [pos |-> "idle", o |-> 0]
  /\ UNCHANGED last

\* m_value() += o: the write to the cell.
m_value ==
  /\ pc.pos = "owned"
  /\ Commit("a", reg["a"], ExpressionT(constant(val("a")) + pc.o))
  /\ pc' = [pos |-> "idle", o |-> 0]
  /\ UNCHANGED last

\* The other thread: Expression b{a}.  `last` keeps the value seen through
\* the copy when it was taken and the position of the first thread.
copy_constructor ==
  /\ Commit("b", reg["a"], val("a"))
  /\ last' = [op |-> "copy", during |-> pc.pos, res |-> val("a")]
  /\ UNCHANGED pc

NextRace ==
  \/ pc.pos = "idle" /\ \E c \in Scalars : Construct("a", c)
  \/ \E c \in Scalars : Construct("b", c)
  \/ \E o \in Scalars : use_count_test(o)
  \/ m_cell
  \/ m_value
  \/ copy_constructor
SpecRace == Init /\ [][NextRace]_vars

\* C30: the in-place fast path is not safe under concurrent use: when the
\* other thread copies the handle between the use_count() == 1 test and the
\* write, the copy shares the cell that is written, and the value observed
\* through the copy becomes the sum.
C30_WriteReachesTheCopy ==
  [][(pc.pos = "owned" /\ pc'.pos = "idle" /\ reg["a"] = reg["b"])
       => /\ reg'["a"] = reg'["b"]
          /\ val("b")' = ExpressionT(constant(val("b")) + pc.o)]_vars

\* The copy was taken after the tests, when it saw 2, and the write of
\* a += -1 has changed the value seen through it to 1.
C30_CopyChangedAfterwards ==
  /\ last = [op |-> "copy", during |-> "owned", res |-> ExpressionT(2)]
  /\ pc.pos = "idle"
  /\ reg["a"] = reg["b"]
  /\ val("b") = ExpressionT(1)
  /\ reg["b"] \notin Singletons

\* ------------------------------------------------ powers of a floating T
\* T = double for the domain check of powers.  A scalar is written as the
\* number of its halves, h for h / 2, from -MaxHalf to MaxHalf: all of them
\* finite, the odd ones not integers.
\*
\* ExpressionPow<T>::check_domain(v1, v2) for a floating T.  The last test of
\* its condition, !is_integer(v2), is reached for a finite negative v1 and
\* calls modf(v2, nullptr) (symbolic_util.cpp:22-28), which stores the
\* integral part through a null pointer: the language leaves the outcome
\* undefined, and integral is the outcome taken, a crash or either answer.
check_domain(v1, v2, integral) ==
  IF ~(v1 < 0) THEN Val(0)
  ELSE IF integral = "crash" THEN Undefined
  ELSE IF integral = "false" THEN Raise("runtime_error")
  ELSE Val(0)

\* std::pow(v1, v2): not a number for a finite negative base and a finite
\* exponent that is not an integer, infinite for 0 to a negative power, and
\* the power otherwise, which is kept as the pair of its operands.
std_pow(v1, v2) ==
  IF v1 < 0 /\ v2 % 2 # 0 THEN Val(<<"nan">>)
  ELSE IF v1 = 0 /\ v2 < 0 THEN Val(<<"inf">>)
  ELSE Val(<<v1, v2>>)

\* pow(Expression(b), Expression(e)): the constant folding of operator^=.
PowFold(b, e, integral) ==
  /\ UNCHANGED <<reg, heap, map_, pc>>
  /\ last' = [op |-> "pow_fold", base |-> b, exponent |-> e,
              res |-> IF IsErr(check_domain(b, e, integral))
                      THEN check_domain(b, e, integral) ELSE std_pow(b, e)]

\* Evaluating the Pow cell of a base that evaluates to b and an exponent
\* that evaluates to e: ExpressionPow::do_evaluate.
PowEvaluate(b, e, integral) ==
  /\ UNCHANGED <<reg, heap, map_, pc>>
  /\ last' = [op |-> "pow_evaluate", base |-> b, exponent |-> e,
              res |-> IF IsErr(check_domain(b, e, integral))
                      THEN check_domain(b, e, integral) ELSE std_pow(b, e)]

\* Evaluating the Mul cell with constant 1 and one factor whose base
\* evaluates to b and whose exponent evaluates to e: the accumulator of
\* ExpressionMul::evaluate, where 2 halves are the exponent 1.
MulEvaluate(b, e) ==
  /\ UNCHANGED <<reg, heap, map_, pc>>
  /\ last' = [op |-> "mul_evaluate", base |-> b, exponent |-> e,
              res |-> IF e = 2 THEN Val(<<b, 2>>)
                      ELSE IF e = 0 THEN Val(<<2, 0>>)
                      ELSE std_pow(b, e)]

NextPow ==
  \/ \E b, e \in (0 - MaxHalf)..MaxHalf, integral \in {"crash", "true", "false"} :
       PowFold(b, e, integral)
  \/ \E b, e \in (0 - MaxHalf)..MaxHalf, integral \in {"crash", "true", "false"} :
       PowEvaluate(b, e, integral)
  \/ \E b, e \in (0 - MaxHalf)..MaxHalf : MulEvaluate(b, e)
SpecPow == Init /\ [][NextPow]_vars

\* C22: for a floating T, folding pow(Expression(b), Expression(e)) and
\* evaluating a power, as a Pow cell or as a factor of a Mul cell, fail with
\* a domain error whenever the base is finite and negative and the exponent
\* is finite and not an integer; for T = int no domain error is raised and
\* pow(Expression(-2), Expression(3)) is -8.
C22_PowerDomainCheck ==
  /\ (/\ last.op \in {"pow_fold", "pow_evaluate", "mul_evaluate"}
      /\ last.base < 0
      /\ last.exponent % 2 # 0)
       => last.res = Raise("runtime_error")
  /\ PowAssign(ExpressionT(0 - 2), ExpressionT(3)) = ExpressionT(0 - 8)
  /\ \A b, e \in Scalars :
       /\ PowAssign(ExpressionT(b), ExpressionT(e)) # Raise("runtime_error")
       /\ Pow_do_evaluate(b, e) # Raise("runtime_error")

\* The factor (-2.0) ^ 0.5 of a Mul cell evaluated to not-a-number without
\* an error.
C22_FactorEvaluatesToNaN ==
  /\ last.op = "mul_evaluate"
  /\ last.base = 0 - 4
  /\ last.exponent = 1
  /\ last.res = Val(<<"nan">>)
====
